---- MODULE Spec2Model ----
(***************************************************************************)
(* MediaAnalyzer: the analysis store (src/src/db.js), the dashboard        *)
(* aggregator (src/src/dashboard.js) and the record normalizer             *)
(* (src/src/analyze.js), as state machines over a PostgreSQL table.        *)
(*                                                                         *)
(* Encoding of JavaScript / JSON values: every value is a tagged tuple     *)
(*   <<"undefined">>  <<"null">>  <<"nan">>  <<"num", n>>  <<"str", s>>    *)
(*   <<"obj", r>>  <<"arr", a>>                                            *)
(* where n is an integer, s a sequence of one-character strings, r a       *)
(* record of values and a a sequence of values.  SQL NULL is <<"null">>.   *)
(***************************************************************************)
EXTENDS Integers, Sequences, FiniteSets, Bags, TLC

----------------------------------------------------------------------------
(* JavaScript values *)

Undef == <<"undefined">>
Null == <<"null">>
NaN == <<"nan">>
Num(n) == <<"num", n>>
Str(s) == <<"str", s>>
Obj(r) == <<"obj", r>>

Tag(v) == v[1]
Val(v) == v[2]

IsNullish(v) == Tag(v) \in {"undefined", "null"}

\* JavaScript truthiness: undefined, null, NaN, 0 and '' are falsy.
Truthy(v) ==
  CASE Tag(v) \in {"undefined", "null", "nan"} -> FALSE
    [] Tag(v) = "num" -> Val(v) # 0
    [] Tag(v) = "str" -> Len(Val(v)) > 0
    [] OTHER -> TRUE

\* The operator ??: the right operand when the left one is null or undefined.
Coalesce(v, d) == IF IsNullish(v) THEN d ELSE v

\* Optional member access obj?.key.
Member(o, k) ==
  IF Tag(o) = "obj" /\ k \in DOMAIN Val(o) THEN Val(o)[k] ELSE Undef

----------------------------------------------------------------------------
(* Strings as sequences of characters *)

DigitChars == <<"0", "1", "2", "3", "4", "5", "6", "7", "8", "9">>

LowerChars ==
  <<"a", "b", "c", "d", "e", "f", "g", "h", "i", "j", "k", "l", "m",
    "n", "o", "p", "q", "r", "s", "t", "u", "v", "w", "x", "y", "z">>

UpperChars ==
  <<"A", "B", "C", "D", "E", "F", "G", "H", "I", "J", "K", "L", "M",
    "N", "O", "P", "Q", "R", "S", "T", "U", "V", "W", "X", "Y", "Z">>

\* Characters in code-point order; used by ORDER BY and by localeCompare.
CharOrder ==
  <<" ", "%", "(", ")", ".", "/">> \o DigitChars \o UpperChars \o
  <<"\\", "_">> \o LowerChars

CharRank(c) == CHOOSE i \in 1..Len(CharOrder) : CharOrder[i] = c

IsDigit(c) == \E i \in 1..10 : DigitChars[i] = c

DigitValue(c) == (CHOOSE i \in 1..10 : DigitChars[i] = c) - 1

IsSpace(c) == c = " "

RECURSIVE StrLess(_, _)
\* s sorts strictly before t.
StrLess(s, t) ==
  IF Len(t) = 0 THEN FALSE
  ELSE IF Len(s) = 0 THEN TRUE
  ELSE IF s[1] # t[1] THEN CharRank(s[1]) < CharRank(t[1])
  ELSE StrLess(Tail(s), Tail(t))

RECURSIVE TrimStart(_)
TrimStart(s) ==
  IF Len(s) > 0 /\ IsSpace(s[1]) THEN TrimStart(Tail(s)) ELSE s

RECURSIVE TrimEnd(_)
TrimEnd(s) ==
  IF Len(s) > 0 /\ IsSpace(s[Len(s)]) THEN TrimEnd(SubSeq(s, 1, Len(s) - 1)) ELSE s

\* String.prototype.trim
Trim(s) == TrimEnd(TrimStart(s))

\* String.prototype.startsWith
StartsWith(s, p) == Len(p) <= Len(s) /\ SubSeq(s, 1, Len(p)) = p

RECURSIVE ToText(_)
\* Decimal rendering of a non-negative integer (String(n), n::text).
ToText(n) ==
  IF n < 10 THEN <<DigitChars[n + 1]>>
  ELSE ToText(n \div 10) \o <<DigitChars[(n % 10) + 1]>>

RECURSIVE DigitsValue(_)
DigitsValue(s) ==
  IF Len(s) = 0 THEN 0
  ELSE 10 * DigitsValue(SubSeq(s, 1, Len(s) - 1)) + DigitValue(s[Len(s)])

AllDigits(s) == \A i \in 1..Len(s) : IsDigit(s[i])

\* Number(x): null and '' and blank strings give 0, undefined gives NaN, a
\* decimal string its value, any other string NaN.
ToNumber(v) ==
  CASE Tag(v) = "num" -> v
    [] Tag(v) = "null" -> Num(0)
    [] Tag(v) = "str" ->
         IF Len(Trim(Val(v))) = 0 THEN Num(0)
         ELSE IF AllDigits(Trim(Val(v))) THEN Num(DigitsValue(Trim(Val(v))))
         ELSE NaN
    [] OTHER -> NaN

\* Number.isFinite
IsFinite(v) == Tag(v) = "num"

----------------------------------------------------------------------------
(* analyze.js: the record normalizer *)

Arr(s) == <<"arr", s>>

\* String.prototype.toLowerCase
LowerChar(c) ==
  IF \E i \in 1..26 : UpperChars[i] = c
  THEN LowerChars[CHOOSE i \in 1..26 : UpperChars[i] = c]
  ELSE c

ToLowerCase(s) == [i \in 1..Len(s) |-> LowerChar(s[i])]

\* Index of the last occurrence of character c in s, 0 when there is none.
LastIndexOf(s, c) ==
  IF \E i \in 1..Len(s) : s[i] = c
  THEN CHOOSE i \in 1..Len(s) : s[i] = c /\ \A j \in (i + 1)..Len(s) : s[j] # c
  ELSE 0

\* path.posix.basename for a relative path without trailing slash
Basename(p) == SubSeq(p, LastIndexOf(p, "/") + 1, Len(p))

\* path.posix.extname: from the last dot of the basename, '' when the basename
\* has no dot or only a leading one.
ExtName(p) ==
  LET b == Basename(p)
      i == LastIndexOf(b, ".")
  IN IF i <= 1 THEN <<>> ELSE SubSeq(b, i, Len(b))

IMAGE_EXT ==
  {<<".", "j", "p", "g">>,
   <<".", "j", "p", "e", "g">>,
   <<".", "p", "n", "g">>,
   <<".", "g", "i", "f">>,
   <<".", "w", "e", "b", "p">>,
   <<".", "b", "m", "p">>,
   <<".", "t", "i", "f">>,
   <<".", "t", "i", "f", "f">>}

VIDEO_EXT ==
  {<<".", "m", "p", "4">>,
   <<".", "m", "k", "v">>,
   <<".", "m", "o", "v">>,
   <<".", "a", "v", "i">>,
   <<".", "w", "e", "b", "m">>,
   <<".", "m", "4", "v">>,
   <<".", "m", "p", "g">>,
   <<".", "m", "p", "e", "g">>,
   <<".", "t", "s">>}

AUDIO_EXT ==
  {<<".", "m", "p", "3">>,
   <<".", "w", "a", "v">>,
   <<".", "a", "a", "c">>,
   <<".", "f", "l", "a", "c">>,
   <<".", "o", "g", "g">>,
   <<".", "m", "4", "a">>,
   <<".", "o", "p", "u", "s">>}

sImage == <<"i", "m", "a", "g", "e">>
sVideo == <<"v", "i", "d", "e", "o">>
sAudio == <<"a", "u", "d", "i", "o">>
sUnknown == <<"u", "n", "k", "n", "o", "w", "n">>

\* The guess that knows no extension.
guessKindAlwaysUnknown(relPath) == Str(sUnknown)

guessKindFromExtension(relPath) ==
  LET ext == ToLowerCase(ExtName(relPath))
  IN IF ext \in IMAGE_EXT THEN Str(sImage)
     ELSE IF ext \in VIDEO_EXT THEN Str(sVideo)
     ELSE IF ext \in AUDIO_EXT THEN Str(sAudio)
     ELSE Str(sUnknown)

\* streams.find((s) => s.codec_type === type) ?? null
PickPrimaryStream(streams, type) ==
  IF \E i \in 1..Len(streams) : Member(streams[i], "codec_type") = Str(type)
  THEN streams[CHOOSE i \in 1..Len(streams) :
                 /\ Member(streams[i], "codec_type") = Str(type)
                 /\ \A j \in 1..(i - 1) : Member(streams[j], "codec_type") # Str(type)]
  ELSE Null

pickPrimaryVideoStream(streams) == PickPrimaryStream(streams, sVideo)

pickPrimaryAudioStream(streams) == PickPrimaryStream(streams, sAudio)

toNumberMaybe(x) ==
  IF IsNullish(x) THEN Null
  ELSE IF IsFinite(ToNumber(x)) THEN ToNumber(x) ELSE Null

\* Date.prototype.toISOString, rendered as the decimal text of the time stamp
\* (an injective rendering, as the ISO text is).
ToISOString(mtime) == Str(ToText(mtime))

\* The keys of an analysis record; a key the record lacks holds Undef.
NoRecord ==
  [path |-> Undef, name |-> Undef, kind |-> Undef, sizeBytes |-> Undef,
   modifiedAt |-> Undef, container |-> Undef, video |-> Undef, audio |-> Undef,
   durationSec |-> Undef, bitRate |-> Undef, raw |-> Undef, error |-> Undef]

RecordKeys == DOMAIN NoRecord

normalizeAnalysis(relPath, fileStats, ffprobeJson) ==
  LET format == Coalesce(Member(ffprobeJson, "format"), Obj([x \in {} |-> Undef]))
      streams == IF Tag(Member(ffprobeJson, "streams")) = "arr"
                 THEN Val(Member(ffprobeJson, "streams")) ELSE <<>>
      video == pickPrimaryVideoStream(streams)
      audio == pickPrimaryAudioStream(streams)
      hasVideo == Truthy(video)
      hasAudio == Truthy(audio)
      kind == IF hasVideo /\ hasAudio THEN sVideo
              ELSE IF hasVideo /\ ~hasAudio THEN sImage
              ELSE IF ~hasVideo /\ hasAudio THEN sAudio
              ELSE sUnknown
  IN [NoRecord EXCEPT
        !.path = Str(relPath),
        !.name = Str(Basename(relPath)),
        !.kind = Str(kind),
        !.sizeBytes = Num(fileStats.size),
        !.modifiedAt = ToISOString(fileStats.mtime),
        !.container =
           Obj([formatName |-> Coalesce(Member(format, "format_name"), Null),
                formatLongName |-> Coalesce(Member(format, "format_long_name"), Null)]),
        !.video =
           Obj([codec |-> Coalesce(Member(video, "codec_name"), Null),
                codecLongName |-> Coalesce(Member(video, "codec_long_name"), Null),
                width |-> toNumberMaybe(Member(video, "width")),
                height |-> toNumberMaybe(Member(video, "height")),
                pixelFormat |-> Coalesce(Member(video, "pix_fmt"), Null),
                frameRate |-> Coalesce(Member(video, "r_frame_rate"), Null)]),
        !.audio =
           Obj([codec |-> Coalesce(Member(audio, "codec_name"), Null),
                codecLongName |-> Coalesce(Member(audio, "codec_long_name"), Null),
                sampleRate |-> toNumberMaybe(Member(audio, "sample_rate")),
                channels |-> toNumberMaybe(Member(audio, "channels"))]),
        !.durationSec = toNumberMaybe(Member(format, "duration")),
        !.bitRate = toNumberMaybe(Member(format, "bit_rate")),
        !.raw = Obj([streamCount |-> Num(Len(streams))])]

sNotAFile == <<"N", "o", "t", " ", "a", " ", "f", "i", "l", "e">>

\* The record analyzeFiles pushes for a path that is not a regular file.
NotAFileRecord(relative) ==
  [NoRecord EXCEPT !.path = Str(relative), !.error = Str(sNotAFile)]

\* The record analyzeFiles pushes when the probe of a regular file failed
\* with message msg.
ProbeErrorRecord(relative, stats, msg) ==
  [NoRecord EXCEPT
     !.path = Str(relative),
     !.name = Str(Basename(relative)),
     !.kind = guessKindFromExtension(relative),
     !.sizeBytes = Num(stats.size),
     !.modifiedAt = ToISOString(stats.mtime),
     !.error = msg]

sAnalyzeFailed ==
  <<"A", "n", "a", "l", "y", "z", "e", " ", "f", "a", "i", "l", "e", "d">>

\* One iteration of the loop of analyzeFiles for a path whose stat succeeded:
\* probe is <<"ok", json>> or <<"fail", message>>.
AnalyzeOne(relative, stats, probe) ==
  IF ~stats.isFile THEN NotAFileRecord(relative)
  ELSE IF probe[1] = "ok" THEN normalizeAnalysis(relative, stats, probe[2])
  ELSE ProbeErrorRecord(relative, stats, Coalesce(probe[2], Str(sAnalyzeFailed)))

----------------------------------------------------------------------------
(* The media tree and the probe outcomes the model draws its records from *)

PathAV == <<"a", "/", "v", ".", "t", "s">>
PathAW == <<"a", "/", "w", ".", "t", "s">>
PathSV == <<" ", "a", "/", "v", ".", "t", "s">>

\* Relative paths of the files of the tree, in ascending order.
Paths == {PathAV, PathAW, PathSV}

sMpegts == <<"m", "p", "e", "g", "t", "s">>
sH264 == <<"h", "2", "6", "4">>
sAac == <<"a", "a", "c">>
sYuv == <<"y", "u", "v">>
sRate == <<"2", "5", "/", "1">>
sProbeExit == <<"f", "f", "p", "r", "o", "b", "e", " ", "e", "x", "i", "t", "e", "d">>

VideoStream ==
  Obj([codec_type |-> Str(sVideo), codec_name |-> Str(sH264),
       width |-> Num(2), height |-> Num(1),
       pix_fmt |-> Str(sYuv), r_frame_rate |-> Str(sRate)])

AudioStream ==
  Obj([codec_type |-> Str(sAudio), codec_name |-> Str(sAac),
       sample_rate |-> Str(<<"8">>), channels |-> Num(2)])

\* A film: a video and an audio stream, 30 s at 3000000 bit/s.
ProbeFilm ==
  Obj([format |-> Obj([format_name |-> Str(sMpegts),
                       duration |-> Str(<<"3", "0">>),
                       bit_rate |-> Str(<<"3", "0", "0", "0", "0", "0", "0">>)]),
       streams |-> Arr(<<VideoStream, AudioStream>>)])

\* A sound track: an audio stream only, 10 s at 1000000 bit/s.
ProbeSound ==
  Obj([format |-> Obj([format_name |-> Str(sMpegts),
                       duration |-> Str(<<"1", "0">>),
                       bit_rate |-> Str(<<"1", "0", "0", "0", "0", "0", "0">>)]),
       streams |-> Arr(<<AudioStream>>)])

\* A still: a video stream only, the container reports no duration and no
\* bit rate.
ProbeStill ==
  Obj([format |-> Obj([format_name |-> Str(sMpegts)]),
       streams |-> Arr(<<VideoStream>>)])

StatFile(size, mtime) == [size |-> size, mtime |-> mtime, isFile |-> TRUE]
StatDir == [size |-> 0, mtime |-> 1, isFile |-> FALSE]

\* What analyzeFiles can see of a path: its stat and the outcome of the probe.
Observations ==
  {<<PathAV, StatFile(1, 1), <<"ok", ProbeFilm>> >>,
   <<PathAV, StatFile(1, 2), <<"fail", Str(sProbeExit)>> >>,
   <<PathAW, StatFile(2, 1), <<"ok", ProbeSound>> >>,
   <<PathAW, StatFile(2, 2), <<"ok", ProbeStill>> >>,
   <<PathSV, StatFile(3, 1), <<"ok", ProbeFilm>> >>,
   <<PathSV, StatFile(3, 2), <<"fail", Str(sProbeExit)>> >>,
   <<PathSV, StatDir, <<"fail", Undef>> >>,
   << <<>>, StatDir, <<"fail", Undef>> >>}

\* The records analyzeFiles produces for the observations.
Records == {AnalyzeOne(o[1], o[2], o[3]) : o \in Observations}

RecFilmAV == AnalyzeOne(PathAV, StatFile(1, 1), <<"ok", ProbeFilm>>)
RecErrAV == AnalyzeOne(PathAV, StatFile(1, 2), <<"fail", Str(sProbeExit)>>)
RecSoundAW == AnalyzeOne(PathAW, StatFile(2, 1), <<"ok", ProbeSound>>)
RecStillAW == AnalyzeOne(PathAW, StatFile(2, 2), <<"ok", ProbeStill>>)
RecFilmSV == AnalyzeOne(PathSV, StatFile(3, 1), <<"ok", ProbeFilm>>)
RecErrSV == AnalyzeOne(PathSV, StatFile(3, 2), <<"fail", Str(sProbeExit)>>)
RecDirSV == AnalyzeOne(PathSV, StatDir, <<"fail", Undef>>)
RecRoot == AnalyzeOne(<<>>, StatDir, <<"fail", Undef>>)

----------------------------------------------------------------------------
(* db.js: the table media_analysis and the statements run against it *)

VARIABLES
  pool,       \* "null" when DATABASE_URL is unset, "pool" otherwise
  dbUp,       \* whether the server behind the pool answers queries
  table,      \* the rows of media_analysis, a bag
  upserts,    \* per call site, the upsertAnalyses call in flight there
  lastWrite,  \* per path, the record of the last upsert statement run for it
  errOverOk,  \* whether the last upsert statement put an error record over an ok row
  getCall,    \* the last getAnalysesByPaths call and what it returned
  search,     \* the searchAnalysesPaged call in flight or last finished
  options,    \* the getSearchOptions call in flight or last finished
  dbDash,     \* the getDashboardFromDb call in flight or last finished
  dashInput,  \* the list of records last given to buildDashboard
  dashboard,  \* what buildDashboard returned for it
  cmpInput,   \* the list of records last given to compareAnalyses
  comparison, \* what compareAnalyses returned for it
  tree,       \* the relative paths of the regular files under the media root
  searchReq,  \* the /api/search request in flight or last answered
  analyzeReq, \* the /api/analyze request in flight or last answered
  analyzeCall, \* the analyzeFiles call in flight or last settled
  pathReq,    \* the /api/db/analyses, /api/browse or /api/thumbnail request in flight or last answered
  thumbCache, \* the thumbnail cache: the cached keys
  thumbCacheOrder, \* the keys of the thumbnail cache in the order they were put in
  disk,       \* per relative path, what fs.stat answers for it now
  pending,    \* the watcher's map of pending timers: per path a timer id, 0 for none
  timers,     \* the timers of the runtime that are set and have not run
  lastSignatureByRelPath, \* the watcher's map of signatures: per path <<mtimeMs, size>>, <<>> for none
  runs,       \* the timer callbacks of the watcher that are under way
  watchLog,   \* what has happened in the watcher so far (history)
  matches,    \* the getDashboardMatchesPaged call in flight or last finished
  allReq,     \* the /api/analyze-all request in progress or answered
  boot,       \* start(): the configuration it reads and how far it has got
  thumbCall   \* the latest call of setThumbCache, with the cache it found

RECURSIVE JsonValue(_)
\* JSON.stringify followed by the jsonb parse: a member that is undefined is
\* dropped, NaN becomes null, objects and arrays are converted member-wise.
JsonValue(v) ==
  CASE Tag(v) = "nan" -> Null
    [] Tag(v) = "obj" -> Obj([k \in DOMAIN Val(v) |-> JsonValue(Val(v)[k])])
    [] Tag(v) = "arr" ->
         Arr([i \in 1..Len(Val(v)) |->
                IF Tag(Val(v)[i]) = "undefined" THEN Null ELSE JsonValue(Val(v)[i])])
    [] OTHER -> v

\* The analysis record as the jsonb column holds it.
JsonRecord(a) == [k \in DOMAIN a |-> JsonValue(a[k])]

\* new Date(text) for the text ToISOString renders.
ParseDate(v) == Num(DigitsValue(Val(v)))

\* The parameters $1..$12 of the INSERT of upsertAnalyses, by column.
RowOf(a) ==
  [path |-> a.path,
   kind |-> Coalesce(a.kind, Null),
   size_bytes |-> Coalesce(a.sizeBytes, Null),
   modified_at |-> IF Truthy(a.modifiedAt) THEN ParseDate(a.modifiedAt) ELSE Null,
   container_format |-> Coalesce(Member(a.container, "formatName"), Null),
   video_codec |-> Coalesce(Member(a.video, "codec"), Null),
   audio_codec |-> Coalesce(Member(a.audio, "codec"), Null),
   width |-> Coalesce(Member(a.video, "width"), Null),
   height |-> Coalesce(Member(a.video, "height"), Null),
   duration_sec |-> Coalesce(a.durationSec, Null),
   bit_rate |-> Coalesce(a.bitRate, Null),
   data |-> JsonRecord(a)]

\* The rows of bag t that satisfy P, with their multiplicities.
Where(t, S) == [r \in DOMAIN t \cap S |-> t[r]]

RECURSIVE BagSize(_)
\* COUNT(*) of a bag of rows.
BagSize(t) ==
  IF DOMAIN t = {} THEN 0
  ELSE LET r == CHOOSE x \in DOMAIN t : TRUE
       IN t[r] + BagSize([x \in DOMAIN t \ {r} |-> t[x]])

\* INSERT ... ON CONFLICT (path) DO NOTHING: the first record of a path stays.
UpsertRowKeepFirst(t, a) ==
  IF \E r \in DOMAIN t : r.path = a.path THEN t
  ELSE t (+) SetToBag({RowOf(a)})

\* INSERT without the conflict clause on a table without the unique key.
UpsertRowAppend(t, a) == t (+) SetToBag({RowOf(a)})

\* ON CONFLICT DO UPDATE that sets the blob but patches the scalar columns
\* only where the new record has a value (COALESCE(EXCLUDED.c, c)).
UpsertRowPatch(t, a) ==
  LET new == RowOf(a)
      Patch(old) ==
        [c \in DOMAIN new |->
           IF c = "data" \/ new[c] # Null THEN new[c] ELSE old[c]]
      hit == {r \in DOMAIN t : r.path = new.path}
  IN IF hit = {} THEN t (+) SetToBag({new})
     ELSE Where(t, {r \in DOMAIN t : r \notin hit}) (+) SetToBag({Patch(r) : r \in hit})

\* INSERT INTO media_analysis ... ON CONFLICT (path) DO UPDATE SET every
\* column = EXCLUDED's: the row of the path is replaced, or a row is added.
UpsertRow(t, a) ==
  LET new == RowOf(a)
  IN IF \E r \in DOMAIN t : r.path = new.path
     THEN Where(t, {r \in DOMAIN t : r.path # new.path}) (+) SetToBag({new})
     ELSE t (+) SetToBag({new})

\* items.filter((a) => a && a.path)
UpsertRows(analyses) == SelectSeq(analyses, LAMBDA a : Truthy(a.path))

\* SELECT path, data FROM media_analysis WHERE path = ANY($1): the data of the
\* matching rows, a bag (the statement states no order).
SelectByPaths(t, list) ==
  LET hit == Where(t, {r \in DOMAIN t : \E i \in 1..Len(list) : r.path = list[i]})
      datas == {r.data : r \in DOMAIN hit}
  IN [d \in datas |-> BagSize(Where(hit, {r \in DOMAIN hit : r.data = d}))]

\* The arrays that list the elements of bag b, each as often as b holds it.
ArraysOf(b) ==
  {s \in [1..BagSize(b) -> DOMAIN b] :
     \A d \in DOMAIN b : Cardinality({i \in 1..BagSize(b) : s[i] = d}) = b[d]}

RECURSIVE Like(_, _)
\* text LIKE pattern with the backslash as escape character: % matches any run
\* of characters, _ any one character, an escaped character itself.  (A
\* pattern that ends in a lone escape character matches nothing here.)
Like(text, pattern) ==
  IF Len(pattern) = 0 THEN Len(text) = 0
  ELSE IF pattern[1] = "\\"
  THEN /\ Len(pattern) >= 2
       /\ Len(text) > 0
       /\ text[1] = pattern[2]
       /\ Like(Tail(text), SubSeq(pattern, 3, Len(pattern)))
  ELSE IF pattern[1] = "%"
  THEN Like(text, Tail(pattern)) \/ (Len(text) > 0 /\ Like(Tail(text), pattern))
  ELSE IF pattern[1] = "_"
  THEN Len(text) > 0 /\ Like(Tail(text), Tail(pattern))
  ELSE Len(text) > 0 /\ text[1] = pattern[1] /\ Like(Tail(text), Tail(pattern))

\* text ILIKE pattern
ILike(text, pattern) == Like(ToLowerCase(text), ToLowerCase(pattern))

RECURSIVE escapeLikePrefix(_)
\* prefix.replace(/\\/g, '\\\\').replace(/%/g, '\\%').replace(/_/g, '\\_')
escapeLikePrefix(prefix) ==
  IF Len(prefix) = 0 THEN <<>>
  ELSE (IF prefix[1] \in {"\\", "%", "_"} THEN <<"\\", prefix[1]>> ELSE <<prefix[1]>>)
       \o escapeLikePrefix(Tail(prefix))

\* typeof v === 'string' ? v : ''
StringOr(v) == IF Tag(v) = "str" THEN Val(v) ELSE <<>>

\* /^\s*(\d+)x(\d+)\s*$/.exec(res): <<width, height>>, or <<>> without a match.
ParseResolution(res) ==
  LET t == Trim(res)
      Fits(i) == /\ t[i] = "x"
                 /\ i > 1 /\ i < Len(t)
                 /\ AllDigits(SubSeq(t, 1, i - 1))
                 /\ AllDigits(SubSeq(t, i + 1, Len(t)))
  IN IF \E i \in 1..Len(t) : Fits(i)
     THEN LET i == CHOOSE j \in 1..Len(t) : Fits(j)
          IN <<DigitsValue(SubSeq(t, 1, i - 1)), DigitsValue(SubSeq(t, i + 1, Len(t)))>>
     ELSE <<>>

\* The WHERE clause searchAnalysesPaged builds from filters f and scopePrefix,
\* evaluated on row r: a condition per filter that is set, joined by AND.
SearchWhere(f, scopePrefix, r) ==
  LET AddEq(col, val) == Len(val) = 0 \/ r[col] = Str(val)
      res == StringOr(f.resolution)
      m == ParseResolution(res)
      name == Trim(StringOr(f.name))
      prefix == Trim(StringOr(scopePrefix))
  IN /\ AddEq("kind", StringOr(f.kind))
     /\ AddEq("container_format", StringOr(f.container))
     /\ AddEq("video_codec", StringOr(f.videoCodec))
     /\ AddEq("audio_codec", StringOr(f.audioCodec))
     /\ (Len(res) > 0 /\ m # <<>>) => (r.width = Num(m[1]) /\ r.height = Num(m[2]))
     /\ Len(name) > 0 => ILike(Val(r.path), <<"%">> \o name \o <<"%">>)
     /\ Len(prefix) > 0 => Like(Val(r.path), escapeLikePrefix(prefix) \o <<"%">>)

RECURSIVE OrderByPath(_)
\* ORDER BY path: the rows of bag t in ascending order of path.
OrderByPath(t) ==
  IF DOMAIN t = {} THEN <<>>
  ELSE LET r == CHOOSE x \in DOMAIN t :
                  \A y \in DOMAIN t : ~StrLess(Val(y.path), Val(x.path))
       IN [i \in 1..t[r] |-> r] \o OrderByPath([x \in DOMAIN t \ {r} |-> t[x]])

\* LIMIT lim OFFSET off of a sequence of rows.
LimitOffset(rows, lim, off) ==
  SubSeq(rows, off + 1, IF off + lim < Len(rows) THEN off + lim ELSE Len(rows))

\* process.env.SEARCH_MAX_RESULTS, here 2.
SEARCH_MAX_RESULTS == 2

\* Number(process.env.SEARCH_MAX_RESULTS ?? 2000), floored when positive,
\* else 2000.
MaxLimit == IF SEARCH_MAX_RESULTS > 0 THEN SEARCH_MAX_RESULTS ELSE 2000

Min(a, b) == IF a <= b THEN a ELSE b

\* safeLimit of searchAnalysesPaged
SafeLimit(limit) ==
  LET limRaw == ToNumber(limit)
  IN IF IsFinite(limRaw) /\ Val(limRaw) > 0 THEN Min(Val(limRaw), MaxLimit)
     ELSE Min(100, MaxLimit)

\* safeOffset of searchAnalysesPaged
SafeOffset(offset) ==
  LET offRaw == ToNumber(offset)
  IN IF IsFinite(offRaw) /\ Val(offRaw) > 0 THEN Val(offRaw) ELSE 0

\* SELECT COUNT(*) FROM media_analysis WHERE ...
SearchTotal(t, f, scopePrefix) ==
  BagSize(Where(t, {r \in DOMAIN t : SearchWhere(f, scopePrefix, r)}))

\* The items query without its ORDER BY: the page is cut from the rows in
\* whatever order the table yields them (here: descending).
SearchItemsUnordered(t, f, scopePrefix, limit, offset) ==
  LET asc == OrderByPath(Where(t, {r \in DOMAIN t : SearchWhere(f, scopePrefix, r)}))
      rows == LimitOffset([i \in 1..Len(asc) |-> asc[Len(asc) + 1 - i]],
                          SafeLimit(limit), SafeOffset(offset))
  IN [i \in 1..Len(rows) |-> rows[i].data]

\* SELECT data FROM media_analysis WHERE ... ORDER BY path LIMIT .. OFFSET ..,
\* then rows.map((r) => r.data).
SearchItemsOf(t, f, scopePrefix, limit, offset) ==
  LET rows == LimitOffset(OrderByPath(Where(t, {r \in DOMAIN t : SearchWhere(f, scopePrefix, r)})),
                          SafeLimit(limit), SafeOffset(offset))
  IN [i \in 1..Len(rows) |-> rows[i].data]

RECURSIVE SortStrings(_)
\* ORDER BY v over a set of strings.
SortStrings(S) ==
  IF S = {} THEN <<>>
  ELSE LET m == CHOOSE x \in S : \A y \in S : ~StrLess(y, x)
       IN <<m>> \o SortStrings(S \ {m})

\* width::text || 'x' || height::text, null when either is null.
ResolutionText(r) ==
  IF r.width = Null \/ r.height = Null THEN Null
  ELSE Str(ToText(Val(r.width)) \o <<"x">> \o ToText(Val(r.height)))

\* One query of getSearchOptions over table t: SELECT DISTINCT .. AS v WHERE
\* .. IS NOT NULL ORDER BY v, then rows.map((r) => r.v).filter(Boolean).
OptionValues(t, v) ==
  LET vs == SortStrings({Val(v[r]) : r \in {x \in DOMAIN t : v[x] # Null}})
  IN SelectSeq([i \in 1..Len(vs) |-> Str(vs[i])], Truthy)

\* The five queries of getSearchOptions in the order they are issued.
OptionsQueryResult(k, t) ==
  CASE k = 1 -> OptionValues(t, [r \in DOMAIN t |-> r.kind])
    [] k = 2 -> OptionValues(t, [r \in DOMAIN t |-> r.container_format])
    [] k = 3 -> OptionValues(t, [r \in DOMAIN t |-> r.video_codec])
    [] k = 4 -> OptionValues(t, [r \in DOMAIN t |-> r.audio_codec])
    [] k = 5 -> OptionValues(t, [r \in DOMAIN t |-> ResolutionText(r)])

\* What getSearchOptions returns without a pool.
NoOptions ==
  [kind |-> <<>>, containerFormat |-> <<>>, videoCodec |-> <<>>,
   audioCodec |-> <<>>, resolution |-> <<>>]

\* What getSearchOptions returns from the answers res to its queries.
OptionsOf(res) ==
  [kind |-> res[1], containerFormat |-> res[2], videoCodec |-> res[3],
   audioCodec |-> res[4], resolution |-> res[5]]

\* The rows of t the WHERE clause of getDashboardFromDb selects: all without
\* a prefix, else those whose path is LIKE the escaped prefix followed by %.
InScope(t, scopePrefix) ==
  LET prefix == Trim(StringOr(scopePrefix))
  IN IF Len(prefix) > 0
     THEN Where(t, {r \in DOMAIN t : Like(Val(r.path), escapeLikePrefix(prefix) \o <<"%">>)})
     ELSE t

\* data ? 'error': the blob has the key error.
HasError(r) == r.data.error # Undef

\* A bigint or numeric result as node-postgres hands it over: decimal text.
PgText(n) == Str(ToText(n))

RECURSIVE SumOver(_)
\* The sum of the values of function f.
SumOver(f) ==
  IF DOMAIN f = {} THEN 0
  ELSE LET x == CHOOSE y \in DOMAIN f : TRUE
       IN f[x] + SumOver([y \in DOMAIN f \ {x} |-> f[y]])

\* SUM(CASE WHEN c THEN col ELSE e END) over the rows of bag s, as a number
\* or null: null values are skipped, no value at all gives null.
SqlSum(s, term) ==
  LET rows == {r \in DOMAIN s : term[r] # Null}
  IN IF rows = {} THEN Null
     ELSE Num(SumOver([r \in rows |-> s[r] * Val(term[r])]))

\* MIN / MAX of the non-null values, null when there is none.
SqlMin(s, term) ==
  LET V == {Val(term[r]) : r \in {x \in DOMAIN s : term[x] # Null}}
  IN IF V = {} THEN Null ELSE Num(CHOOSE x \in V : \A y \in V : x <= y)

SqlMax(s, term) ==
  LET V == {Val(term[r]) : r \in {x \in DOMAIN s : term[x] # Null}}
  IN IF V = {} THEN Null ELSE Num(CHOOSE x \in V : \A y \in V : x >= y)

\* An integer aggregate as the driver returns it.
PgBig(v) == IF v = Null THEN Null ELSE PgText(Val(v))

\* The row totalsSql yields over the rows s in scope.
TotalsRow(s) ==
  LET OkCol(r, col) == IF ~HasError(r) THEN r[col] ELSE Null
      OkColOrZero(r, col) == IF ~HasError(r) THEN r[col] ELSE Num(0)
  IN [total_count |-> PgText(BagSize(s)),
      error_count |-> PgBig(SqlSum(s, [r \in DOMAIN s |-> IF HasError(r) THEN Num(1) ELSE Num(0)])),
      ok_count |-> PgBig(SqlSum(s, [r \in DOMAIN s |-> IF ~HasError(r) THEN Num(1) ELSE Num(0)])),
      total_size_bytes |->
        PgBig(Coalesce(SqlSum(s, [r \in DOMAIN s |-> OkColOrZero(r, "size_bytes")]), Num(0))),
      total_duration_sec |->
        Coalesce(SqlSum(s, [r \in DOMAIN s |-> OkColOrZero(r, "duration_sec")]), Num(0)),
      bit_rate_min |-> PgBig(SqlMin(s, [r \in DOMAIN s |-> OkCol(r, "bit_rate")])),
      bit_rate_max |-> PgBig(SqlMax(s, [r \in DOMAIN s |-> OkCol(r, "bit_rate")])),
      duration_min |-> SqlMin(s, [r \in DOMAIN s |-> OkCol(r, "duration_sec")]),
      duration_max |-> SqlMax(s, [r \in DOMAIN s |-> OkCol(r, "duration_sec")])]

\* data->'k1'->>'k2': the text of a JSON string or number, null otherwise.
JsonText(r, k1, k2) ==
  LET v == Member(r.data[k1], k2)
  IN CASE Tag(v) = "str" -> v
       [] Tag(v) = "num" -> Str(ToText(Val(v)))
       [] OTHER -> Null

RECURSIVE OrderByCountKey(_)
\* ORDER BY count DESC, key ASC over a set of {key, count} rows.
OrderByCountKey(S) ==
  IF S = {} THEN <<>>
  ELSE LET e == CHOOSE x \in S :
                  \A y \in S \ {x} :
                    \/ x.count > y.count
                    \/ x.count = y.count /\ StrLess(x.key, y.key)
       IN <<e>> \o OrderByCountKey(S \ {e})

\* SELECT k AS key, COUNT(*) AS count over the rows of bag s whose k is not
\* null, GROUP BY k ORDER BY count DESC, key ASC.
GroupCount(s, key) ==
  LET keys == {key[r] : r \in DOMAIN s} \ {Null}
  IN OrderByCountKey({[key |-> Val(k),
                       count |-> BagSize(Where(s, {r \in DOMAIN s : key[r] = k}))] : k \in keys})

\* The same over the rows whose k is neither null nor ''.
GroupCountExpr(s, key) ==
  LET keys == {key[r] : r \in DOMAIN s} \ {Null, Str(<<>>)}
  IN OrderByCountKey({[key |-> Val(k),
                       count |-> BagSize(Where(s, {r \in DOMAIN s : key[r] = k}))] : k \in keys})

\* The ten queries of getDashboardFromDb in the order they are issued, over
\* table t.
DashQueryResult(k, t, scopePrefix) ==
  LET s == InScope(t, scopePrefix)
      ok == Where(s, {r \in DOMAIN s : ~HasError(r)})
  IN CASE k = 1 -> TotalsRow(s)
       [] k = 2 -> GroupCount(ok, [r \in DOMAIN ok |-> r.kind])
       [] k = 3 -> GroupCount(ok, [r \in DOMAIN ok |-> r.container_format])
       [] k = 4 -> GroupCount(ok, [r \in DOMAIN ok |-> r.video_codec])
       [] k = 5 -> GroupCountExpr(ok, [r \in DOMAIN ok |-> JsonText(r, "video", "pixelFormat")])
       [] k = 6 -> GroupCountExpr(ok, [r \in DOMAIN ok |-> JsonText(r, "video", "frameRate")])
       [] k = 7 -> GroupCount(ok, [r \in DOMAIN ok |-> r.audio_codec])
       [] k = 8 -> GroupCountExpr(ok, [r \in DOMAIN ok |-> JsonText(r, "audio", "sampleRate")])
       [] k = 9 -> GroupCountExpr(ok, [r \in DOMAIN ok |-> JsonText(r, "audio", "channels")])
       [] k = 10 -> GroupCount(ok, [r \in DOMAIN ok |-> ResolutionText(r)])

toInt(v) == IF IsFinite(ToNumber(v)) THEN ToNumber(v) ELSE Num(0)

toNumOrNull(v) == IF IsFinite(ToNumber(v)) THEN ToNumber(v) ELSE Null

\* What getDashboardFromDb returns without a pool.
NeutralDashboard ==
  [totals |->
     [selectedCount |-> 0, analyzedOkCount |-> 0, analyzedErrorCount |-> 0,
      totalSizeBytes |-> 0, totalDurationSec |-> 0,
      bitRate |-> [min |-> Null, max |-> Null],
      durationSec |-> [min |-> Null, max |-> Null]],
   counts |->
     [kind |-> <<>>, containerFormat |-> <<>>, videoCodec |-> <<>>,
      pixelFormat |-> <<>>, frameRate |-> <<>>, audioCodec |-> <<>>,
      audioSampleRate |-> <<>>, audioChannels |-> <<>>, resolution |-> <<>>]]

\* What getDashboardFromDb returns from the answers res to its queries.
DashboardOf(res) ==
  LET t == res[1]
  IN [totals |->
        [selectedCount |-> 0,
         analyzedOkCount |-> Val(toInt(t.ok_count)),
         analyzedErrorCount |-> Val(toInt(t.error_count)),
         totalSizeBytes |-> Val(toInt(t.total_size_bytes)),
         totalDurationSec |-> Val(Coalesce(toNumOrNull(t.total_duration_sec), Num(0))),
         bitRate |-> [min |-> toNumOrNull(t.bit_rate_min),
                      max |-> toNumOrNull(t.bit_rate_max)],
         durationSec |-> [min |-> toNumOrNull(t.duration_min),
                          max |-> toNumOrNull(t.duration_max)]],
      counts |->
        [kind |-> res[2], containerFormat |-> res[3], videoCodec |-> res[4],
         pixelFormat |-> res[5], frameRate |-> res[6], audioCodec |-> res[7],
         audioSampleRate |-> res[8], audioChannels |-> res[9],
         resolution |-> res[10]]]

----------------------------------------------------------------------------
(* The calls of the store operations: call sites, bounds, actions *)

\* Longest list of records one upsertAnalyses call is given.
MaxBatch == 2

CallSites == {"watcher", "analyze", "analyzeAll"}

RECURSIVE SeqsUpTo(_, _)
SeqsUpTo(S, n) ==
  IF n = 0 THEN {<<>>}
  ELSE SeqsUpTo(S, n - 1) \cup {Append(s, x) : s \in {t \in SeqsUpTo(S, n - 1) : Len(t) = n - 1}, x \in S}

\* The records the call sites of the store specification hold: two outcomes
\* for one path, one for another, and the record of the root directory.
StoreRecords == {RecFilmAV, RecErrAV, RecSoundAW, RecRoot}

\* What each call site passes to upsertAnalyses: the watcher the record of one
\* path, /api/analyze the records of the requested paths (any, repeats
\* included), /api/analyze-all those of a chunk of the listing (ascending).
WatcherBatches == {<<r>> : r \in StoreRecords}

AnalyzeBatches == SeqsUpTo(StoreRecords, MaxBatch) \ {<<>>}

AnalyzeAllBatches ==
  {s \in SeqsUpTo({r \in StoreRecords : Val(r.path) \in Paths}, MaxBatch) \ {<<>>} :
     \A i \in 1..(Len(s) - 1) : StrLess(Val(s[i].path), Val(s[i + 1].path))}

Idle == [st |-> "idle"]

vars == <<pool, dbUp, table, upserts, lastWrite, errOverOk, getCall, search,
          options, dbDash, dashInput, dashboard,
          cmpInput, comparison,
          tree, searchReq,
          analyzeReq, analyzeCall,
          pathReq, thumbCache, thumbCacheOrder,
          disk, pending, timers, lastSignatureByRelPath, runs, watchLog,
          matches,
          allReq,
          boot,
          thumbCall>>

Init ==
  /\ pool = "pool"
  /\ dbUp = TRUE
  /\ table = EmptyBag
  /\ upserts = [c \in CallSites |-> Idle]
  /\ lastWrite = [p \in Paths |-> NoRecord]
  /\ errOverOk = FALSE
  /\ getCall = Idle
  /\ search = Idle
  /\ options = Idle
  /\ dbDash = Idle
  /\ dashInput = <<>>
  /\ dashboard = Idle
  /\ cmpInput = <<>>
  /\ comparison = Idle
  /\ tree = Paths
  /\ searchReq = Idle
  /\ analyzeReq = Idle
  /\ analyzeCall = Idle
  /\ pathReq = Idle
  /\ thumbCache = {}
  /\ thumbCacheOrder = <<>>
  /\ disk = [p \in Paths |-> StatFile(1, 1)]
  /\ pending = [p \in Paths |-> 0]
  /\ timers = {}
  /\ lastSignatureByRelPath = [p \in Paths |-> <<>>]
  /\ runs = {}
  /\ watchLog = [events |-> 0, since |-> [p \in Paths |-> 0], latest |-> [p \in Paths |-> 0], bursts |-> [p \in Paths |-> <<>>], fired |-> [ev |-> 0], compared |-> [ev |-> 0], lastGood |-> [p \in Paths |-> <<>>], unseen |-> {}]
  /\ matches = Idle
  /\ allReq = Idle
  /\ boot = Idle
  /\ thumbCall = Idle

\* upsertAnalyses up to its first query: the guard on the pool, the filter on
\* the records, the early return when no record has a path.
UpsertStart(c, analyses) ==
  /\ upserts[c].st # "run"
  /\ upserts' =
       [upserts EXCEPT
          ![c] = IF pool = "null" \/ Len(UpsertRows(analyses)) = 0
                 THEN [st |-> "done", attempted |-> 0, stored |-> 0]
                 ELSE [st |-> "run", rows |-> UpsertRows(analyses),
                       attempted |-> Len(UpsertRows(analyses)), stored |-> 0]]
  /\ UNCHANGED <<thumbCall,
               boot,
               allReq,
               matches,
               disk, pending, timers, lastSignatureByRelPath, runs, watchLog,
               pathReq, thumbCache, thumbCacheOrder,
               analyzeReq, analyzeCall,
               tree, searchReq,
               cmpInput, comparison,
               pool, dbUp, table, lastWrite, errOverOk, getCall, search,
                 options, dbDash, dashInput, dashboard>>

\* One turn of the loop of upsertAnalyses: the statement for the next record;
\* after the last one the call returns {attempted, stored}.  A failing query
\* rejects the call.
UpsertStep(c) ==
  /\ upserts[c].st = "run"
  /\ LET u == upserts[c]
         a == Head(u.rows)
     IN IF dbUp
        THEN /\ table' = UpsertRow(table, a)
             /\ lastWrite' = [lastWrite EXCEPT ![Val(a.path)] = a]
             /\ errOverOk' = (/\ a.error # Undef
                              /\ \E r \in DOMAIN table :
                                   r.path = a.path /\ r.data.error = Undef)
             /\ upserts' =
                  [upserts EXCEPT
                     ![c] = IF Len(u.rows) = 1
                            THEN [st |-> "done", attempted |-> u.attempted,
                                  stored |-> u.stored + 1]
                            ELSE [u EXCEPT !.rows = Tail(u.rows),
                                           !.stored = u.stored + 1]]
        ELSE /\ upserts' = [upserts EXCEPT ![c] = [st |-> "rejected"]]
             /\ UNCHANGED <<table, lastWrite, errOverOk>>
  /\ UNCHANGED <<thumbCall,
               boot,
               allReq,
               matches,
               disk, pending, timers, lastSignatureByRelPath, runs, watchLog,
               pathReq, thumbCache, thumbCacheOrder,
               analyzeReq, analyzeCall,
               tree, searchReq,
               cmpInput, comparison,
               pool, dbUp, getCall, search, options, dbDash, dashInput, dashboard>>

\* paths.filter((p) => typeof p === 'string' && p.length)
PathList(paths) == SelectSeq(paths, LAMBDA p : Tag(p) = "str" /\ Len(Val(p)) > 0)

\* What getAnalysesByPaths can return from table t when the query succeeds:
\* [] without a pool or without a path, else rows.map((r) => r.data) in the
\* order the query returns the rows.
getAnalysesByPaths(pl, t, paths) ==
  IF pl = "null" \/ Len(PathList(paths)) = 0 THEN {<<>>}
  ELSE ArraysOf(SelectByPaths(t, PathList(paths)))

\* A call of getAnalysesByPaths; a failing query rejects it.
GetByPaths(paths) ==
  /\ IF pool # "null" /\ Len(PathList(paths)) > 0 /\ ~dbUp
     THEN getCall' = [st |-> "rejected", paths |-> paths]
     ELSE \E res \in getAnalysesByPaths(pool, table, paths) :
            getCall' = [st |-> "done", paths |-> paths, res |-> res]
  /\ UNCHANGED <<thumbCall,
               boot,
               allReq,
               matches,
               disk, pending, timers, lastSignatureByRelPath, runs, watchLog,
               pathReq, thumbCache, thumbCacheOrder,
               analyzeReq, analyzeCall,
               tree, searchReq,
               cmpInput, comparison,
               pool, dbUp, table, upserts, lastWrite, errOverOk, search,
                 options, dbDash, dashInput, dashboard>>

\* searchAnalysesPaged up to the answer to its count query: the neutral
\* result without a pool, else the total of the rows the WHERE clause selects.
SearchCount(q) ==
  /\ search.st # "counted"
  /\ search' =
       IF pool = "null"
       THEN [st |-> "done", q |-> q, items |-> <<>>, total |-> 0,
             limit |-> 0, offset |-> 0]
       ELSE IF dbUp
       THEN [st |-> "counted", q |-> q,
             total |-> SearchTotal(table, q.f, q.scopePrefix)]
       ELSE [st |-> "rejected", q |-> q]
  /\ UNCHANGED <<thumbCall,
               boot,
               allReq,
               matches,
               disk, pending, timers, lastSignatureByRelPath, runs, watchLog,
               pathReq, thumbCache, thumbCacheOrder,
               analyzeReq, analyzeCall,
               tree, searchReq,
               cmpInput, comparison,
               pool, dbUp, table, upserts, lastWrite, errOverOk, getCall,
                 options, dbDash, dashInput, dashboard>>

\* The rest of searchAnalysesPaged: the items query and the return of
\* {items, total, limit, offset}.
SearchList ==
  /\ search.st = "counted"
  /\ search' =
       IF dbUp
       THEN [st |-> "done", q |-> search.q,
             items |-> SearchItemsOf(table, search.q.f, search.q.scopePrefix,
                                     search.q.limit, search.q.offset),
             total |-> search.total,
             limit |-> SafeLimit(search.q.limit),
             offset |-> SafeOffset(search.q.offset)]
       ELSE [st |-> "rejected", q |-> search.q]
  /\ UNCHANGED <<thumbCall,
               boot,
               allReq,
               matches,
               disk, pending, timers, lastSignatureByRelPath, runs, watchLog,
               pathReq, thumbCache, thumbCacheOrder,
               analyzeReq, analyzeCall,
               tree, searchReq,
               cmpInput, comparison,
               pool, dbUp, table, upserts, lastWrite, errOverOk, getCall,
                 options, dbDash, dashInput, dashboard>>

\* getSearchOptions up to its Promise.all: the empty lists without a pool,
\* else its five queries are issued.
OptionsStart ==
  /\ options.st # "run"
  /\ options' = IF pool = "null" THEN [st |-> "done", out |-> NoOptions]
                ELSE [st |-> "run", res |-> <<>>]
  /\ UNCHANGED <<thumbCall,
               boot,
               allReq,
               matches,
               disk, pending, timers, lastSignatureByRelPath, runs, watchLog,
               pathReq, thumbCache, thumbCacheOrder,
               analyzeReq, analyzeCall,
               tree, searchReq,
               cmpInput, comparison,
               pool, dbUp, table, upserts, lastWrite, errOverOk, getCall,
                 search, dbDash, dashInput, dashboard>>

\* The answer to the next query of getSearchOptions (the queries are
\* answered in the order issued); with the last one the call returns.  A
\* failing query rejects the call.
OptionsQuery ==
  /\ options.st = "run"
  /\ LET res == Append(options.res, OptionsQueryResult(Len(options.res) + 1, table))
     IN options' = IF ~dbUp THEN [st |-> "rejected"]
                   ELSE IF Len(res) = 5 THEN [st |-> "done", out |-> OptionsOf(res)]
                   ELSE [st |-> "run", res |-> res]
  /\ UNCHANGED <<thumbCall,
               boot,
               allReq,
               matches,
               disk, pending, timers, lastSignatureByRelPath, runs, watchLog,
               pathReq, thumbCache, thumbCacheOrder,
               analyzeReq, analyzeCall,
               tree, searchReq,
               cmpInput, comparison,
               pool, dbUp, table, upserts, lastWrite, errOverOk, getCall,
                 search, dbDash, dashInput, dashboard>>

\* getDashboardFromDb up to its Promise.all: the neutral dashboard without a
\* pool, else its ten queries are issued.
DashStart(scopePrefix) ==
  /\ dbDash.st # "run"
  /\ dbDash' = IF pool = "null"
               THEN [st |-> "done", scopePrefix |-> scopePrefix, out |-> NeutralDashboard]
               ELSE [st |-> "run", scopePrefix |-> scopePrefix, res |-> <<>>]
  /\ UNCHANGED <<thumbCall,
               boot,
               allReq,
               matches,
               disk, pending, timers, lastSignatureByRelPath, runs, watchLog,
               pathReq, thumbCache, thumbCacheOrder,
               analyzeReq, analyzeCall,
               tree, searchReq,
               cmpInput, comparison,
               pool, dbUp, table, upserts, lastWrite, errOverOk, getCall,
                 search, options, dashInput, dashboard>>

\* The answer to the next query of getDashboardFromDb (answered in the order
\* issued); with the last one the call returns.  A failing query rejects the
\* call.
DashQuery ==
  /\ dbDash.st = "run"
  /\ LET res == Append(dbDash.res,
                       DashQueryResult(Len(dbDash.res) + 1, table, dbDash.scopePrefix))
     IN dbDash' = IF ~dbUp
                  THEN [st |-> "rejected", scopePrefix |-> dbDash.scopePrefix]
                  ELSE IF Len(res) = 10
                  THEN [st |-> "done", scopePrefix |-> dbDash.scopePrefix,
                        out |-> DashboardOf(res)]
                  ELSE [dbDash EXCEPT !.res = res]
  /\ UNCHANGED <<thumbCall,
               boot,
               allReq,
               matches,
               disk, pending, timers, lastSignatureByRelPath, runs, watchLog,
               pathReq, thumbCache, thumbCacheOrder,
               analyzeReq, analyzeCall,
               tree, searchReq,
               cmpInput, comparison,
               pool, dbUp, table, upserts, lastWrite, errOverOk, getCall,
                 search, options, dashInput, dashboard>>

\* The path lists getAnalysesByPaths is called with.
PathLists == {<<Str(p)>> : p \in Paths \cup {<<>>}}

Next ==
  \/ \E b \in WatcherBatches : UpsertStart("watcher", b)
  \/ \E b \in AnalyzeBatches : UpsertStart("analyze", b)
  \/ \E b \in AnalyzeAllBatches : UpsertStart("analyzeAll", b)
  \/ \E c \in CallSites : UpsertStep(c)
  \/ \E l \in PathLists : GetByPaths(l)

Spec == Init /\ [][Next]_vars

----------------------------------------------------------------------------
(* Claims on the store: upsert and lookup *)

\* C1: whenever the last upsert statement run for a path p wrote record R,
\* getAnalysesByPaths([p]) returns exactly one record, and it equals R.
C1_RoundTrip ==
  \A p \in Paths :
    lastWrite[p] # NoRecord =>
      getAnalysesByPaths(pool, table, <<Str(p)>>) = {<<lastWrite[p]>>}

\* A lookup returned the error record that was written over the ok record of
\* the same path.
C1_Witness ==
  /\ getCall.st = "done"
  /\ getCall.paths = <<Str(PathAV)>>
  /\ getCall.res = <<RecErrAV>>
  /\ lastWrite[PathAV] = RecErrAV
  /\ errOverOk

\* Number of rows of the table whose path is p.
RowsOfPath(p) == BagSize(Where(table, {r \in DOMAIN table : r.path = Str(p)}))

\* C2: the table holds exactly one row for every path an upsert statement was
\* run for, and no other row.
C2_OneRowPerPath ==
  /\ \A p \in Paths : RowsOfPath(p) = IF lastWrite[p] # NoRecord THEN 1 ELSE 0
  /\ \A r \in DOMAIN table : Tag(r.path) = "str" /\ Val(r.path) \in Paths

\* /api/analyze has stored a batch that names one path twice while the
\* watcher and /api/analyze-all have calls in flight, and the table holds one
\* row for that path.
C2_Witness ==
  /\ upserts["analyze"].st = "done"
  /\ upserts["analyze"].stored = 2
  /\ upserts["watcher"].st = "run"
  /\ upserts["analyzeAll"].st = "run"
  /\ lastWrite[PathAW] = NoRecord
  /\ RowsOfPath(PathAV) = 1

\* The value the blob d gives for scalar column c (null when d lacks it).
BlobScalar(d, c) ==
  LET v == CASE c = "kind" -> d.kind
             [] c = "size_bytes" -> d.sizeBytes
             [] c = "container_format" -> Member(d.container, "formatName")
             [] c = "video_codec" -> Member(d.video, "codec")
             [] c = "audio_codec" -> Member(d.audio, "codec")
             [] c = "width" -> Member(d.video, "width")
             [] c = "height" -> Member(d.video, "height")
             [] c = "duration_sec" -> d.durationSec
             [] c = "bit_rate" -> d.bitRate
  IN IF Tag(v) = "undefined" THEN Null ELSE v

ScalarColumns ==
  {"kind", "size_bytes", "container_format", "video_codec", "audio_codec",
   "width", "height", "duration_sec", "bit_rate"}

\* C3: in every row each denormalized scalar column equals the value the blob
\* of the same row gives for it; so the row of an error record holds no probe
\* value of an earlier ok record.
C3_ColumnsInSync ==
  \A r \in DOMAIN table : \A c \in ScalarColumns : r[c] = BlobScalar(r.data, c)

\* An error record has replaced the ok record of its path.
C3_Witness ==
  /\ errOverOk
  /\ lastWrite[PathAV] = RecErrAV
  /\ \E r \in DOMAIN table :
       r.data = RecErrAV /\ r.video_codec = Null /\ r.bit_rate = Null

----------------------------------------------------------------------------
(* Paged search next to the watcher's upserts *)

\* The records the watcher stores in the search specification.
SearchRecords == {RecFilmAV, RecErrAV, RecSoundAW, RecFilmSV}

SearchBatches == {<<r>> : r \in SearchRecords}

\* pickSearchFilters of a body without filters: every filter is ''.
NoFilters ==
  [kind |-> Str(<<>>), container |-> Str(<<>>), videoCodec |-> Str(<<>>),
   audioCodec |-> Str(<<>>), resolution |-> Str(<<>>), name |-> Str(<<>>)]

\* The calls /api/search makes of searchAnalysesPaged (a metadata filter is
\* set, the limit lies between 1 and the maximum): by kind in pages of one,
\* by audio codec under a/, by kind and name, by video codec from the second
\* match on.
SearchQueries ==
  {[f |-> [NoFilters EXCEPT !.kind = Str(sVideo)], scopePrefix |-> Str(<<>>),
    limit |-> Num(1), offset |-> Num(0)],
   [f |-> [NoFilters EXCEPT !.kind = Str(sVideo)], scopePrefix |-> Str(<<>>),
    limit |-> Num(1), offset |-> Num(1)],
   [f |-> [NoFilters EXCEPT !.audioCodec = Str(sAac)], scopePrefix |-> Str(<<"a", "/">>),
    limit |-> Num(2), offset |-> Num(0)],
   [f |-> [NoFilters EXCEPT !.kind = Str(sVideo), !.name = Str(<<"V">>)],
    scopePrefix |-> Str(<<>>), limit |-> Num(2), offset |-> Num(0)],
   [f |-> [NoFilters EXCEPT !.videoCodec = Str(sH264)], scopePrefix |-> Str(<<>>),
    limit |-> Num(2), offset |-> Num(1)]}

NextSearch ==
  \/ \E b \in SearchBatches : UpsertStart("watcher", b)
  \/ UpsertStep("watcher")
  \/ \E q \in SearchQueries : SearchCount(q)
  \/ SearchList

SpecSearch == Init /\ [][NextSearch]_vars

\* The rows of t that match the filters and the scope of search call q.
Matching(t, q) == Where(t, {r \in DOMAIN t : SearchWhere(q.f, q.scopePrefix, r)})

\* The page of records items is the window of lim rows from position off of
\* the rows of bag m taken in ascending order of path: the i-th item is the
\* blob of the row that has off + i - 1 rows of smaller path before it.
IsPage(items, m, lim, off) ==
  /\ Len(items) = Min(lim, IF BagSize(m) > off THEN BagSize(m) - off ELSE 0)
  /\ \A i \in 1..Len(items) :
       \E r \in DOMAIN m :
         /\ r.data = items[i]
         /\ Cardinality({x \in DOMAIN m : StrLess(Val(x.path), Val(r.path))})
              = off + i - 1

\* C4: a finished search holds no record that carries an error.
C4_OkOnly ==
  search.st = "done" => \A i \in 1..Len(search.items) : search.items[i].error = Undef

\* C5 as stated: when the search returns, its items are the window
\* [offset, offset + limit) of the matching records in ascending order of
\* path and its total is the number of all matching records.
C5_TotalOfStore ==
  [][(search.st = "counted" /\ search'.st = "done") =>
       /\ IsPage(search'.items, Matching(table, search'.q), search'.limit, search'.offset)
       /\ search'.total = BagSize(Matching(table, search'.q))]_vars

\* C5: the total is the number of records matching when the count query is
\* answered, whatever limit and offset are; the items are the window
\* [offset, offset + limit), for the limit and offset the call returns, of the
\* records matching when the items query is answered, in ascending order of
\* path; the total returned is the one counted.
C5_PageOfMatches ==
  [][/\ (search.st # "counted" /\ search'.st = "counted") =>
          search'.total = BagSize(Matching(table, search'.q))
     /\ (search.st = "counted" /\ search'.st = "done") =>
          /\ IsPage(search'.items, Matching(table, search'.q),
                    search'.limit, search'.offset)
          /\ search'.limit = SafeLimit(search'.q.limit)
          /\ search'.offset = SafeOffset(search'.q.offset)
          /\ search'.total = search.total]_vars

\* The second page of one record out of two videos came back: the record of
\* a/v.ts follows that of " a/v.ts".
C5_Witness ==
  /\ search.st = "done"
  /\ search.q.limit = Num(1) /\ search.q.offset = Num(1)
  /\ search.total = 2
  /\ search.items = <<RecFilmAV>>
  /\ BagSize(Matching(table, search.q)) = 2

----------------------------------------------------------------------------
(* The store operations with the store absent or unreachable *)

\* The process starts with or without DATABASE_URL, and the server behind
\* the pool answers or does not.
InitAvail ==
  /\ pool \in {"null", "pool"}
  /\ dbUp \in BOOLEAN
  /\ table = EmptyBag
  /\ upserts = [c \in CallSites |-> Idle]
  /\ lastWrite = [p \in Paths |-> NoRecord]
  /\ errOverOk = FALSE
  /\ getCall = Idle
  /\ search = Idle
  /\ options = Idle
  /\ dbDash = Idle
  /\ dashInput = <<>>
  /\ dashboard = Idle
  /\ cmpInput = <<>>
  /\ comparison = Idle
  /\ tree = Paths
  /\ searchReq = Idle
  /\ analyzeReq = Idle
  /\ analyzeCall = Idle
  /\ pathReq = Idle
  /\ thumbCache = {}
  /\ thumbCacheOrder = <<>>
  /\ disk = [p \in Paths |-> StatFile(1, 1)]
  /\ pending = [p \in Paths |-> 0]
  /\ timers = {}
  /\ lastSignatureByRelPath = [p \in Paths |-> <<>>]
  /\ runs = {}
  /\ watchLog = [events |-> 0, since |-> [p \in Paths |-> 0], latest |-> [p \in Paths |-> 0], bursts |-> [p \in Paths |-> <<>>], fired |-> [ev |-> 0], compared |-> [ev |-> 0], lastGood |-> [p \in Paths |-> <<>>], unseen |-> {}]
  /\ matches = Idle
  /\ allReq = Idle
  /\ boot = Idle
  /\ thumbCall = Idle

\* No store call is in flight: this specification issues them one at a time.
Quiet ==
  /\ \A c \in CallSites : upserts[c].st # "run"
  /\ search.st # "counted"
  /\ options.st # "run"
  /\ dbDash.st # "run"

\* A record with a path and one without.
AvailBatches == {<<RecFilmAV>>, <<RecRoot>>}

AvailPathLists == {<<Str(<<>>)>>, <<Str(PathAV)>>}

AvailQueries == {q \in SearchQueries : q.scopePrefix # Str(<<>>)}

AvailPrefixes == {Str(<<"a", "/">>)}

NextAvail ==
  \/ Quiet /\ \E b \in AvailBatches : UpsertStart("watcher", b)
  \/ UpsertStep("watcher")
  \/ Quiet /\ \E l \in AvailPathLists : GetByPaths(l)
  \/ Quiet /\ OptionsStart
  \/ OptionsQuery
  \/ Quiet /\ \E q \in AvailQueries : SearchCount(q)
  \/ SearchList
  \/ Quiet /\ \E x \in AvailPrefixes : DashStart(x)
  \/ DashQuery

SpecAvail == InitAvail /\ [][NextAvail]_vars

\* C6: with the pool null or the store unreachable no call of the five
\* operations throws, and each call that has returned returned its neutral
\* result.
C6_NeutralNoThrow ==
  (pool = "null" \/ ~dbUp) =>
    /\ \A c \in CallSites :
         /\ upserts[c].st # "rejected"
         /\ upserts[c].st = "done" => upserts[c].attempted = 0 /\ upserts[c].stored = 0
    /\ getCall.st # "rejected"
    /\ getCall.st = "done" => getCall.res = <<>>
    /\ options.st # "rejected"
    /\ options.st = "done" => options.out = NoOptions
    /\ search.st # "rejected"
    /\ search.st = "done" =>
         search.items = <<>> /\ search.total = 0 /\ search.limit = 0 /\ search.offset = 0
    /\ dbDash.st # "rejected"
    /\ dbDash.st = "done" => dbDash.out = NeutralDashboard

----------------------------------------------------------------------------
(* The dashboard of the store *)

\* The records the watcher stores in this specification: two outcomes for
\* each of two files under a/ and one file under " a/".
DashRecords == {RecFilmAV, RecErrAV, RecSoundAW, RecStillAW, RecFilmSV}

DashBatches == {<<r>> : r \in DashRecords}

\* /api/db/dashboard passes '' for scope "all" and the directory followed by
\* a slash for scope "current".
DashPrefixes == {Str(<<>>), Str(<<"a", "/">>), Str(<<" ", "a", "/">>)}

\* The watcher stores records between the dashboard calls; no statement runs
\* while the queries of a call are being answered.
NextDashDb ==
  \/ dbDash.st # "run" /\ \E b \in DashBatches : UpsertStart("watcher", b)
  \/ dbDash.st # "run" /\ UpsertStep("watcher")
  \/ \E x \in DashPrefixes : DashStart(x)
  \/ DashQuery

SpecDashDb == Init /\ [][NextDashDb]_vars

\* The range of a set V of values: nulls when V is empty, else its least and
\* greatest element.
RangeOf(V) ==
  IF V = {} THEN [min |-> Null, max |-> Null]
  ELSE [min |-> Num(CHOOSE x \in V : \A y \in V : x <= y),
        max |-> Num(CHOOSE x \in V : \A y \in V : x >= y)]

\* The ok records stored in t under a path that starts with prefix.
OkInScope(t, prefix) ==
  {r.data : r \in {x \in DOMAIN t : x.data.error = Undef /\ StartsWith(Val(x.path), prefix)}}

\* The error records stored in t under a path that starts with prefix.
ErrInScope(t, prefix) ==
  {r.data : r \in {x \in DOMAIN t : x.data.error # Undef /\ StartsWith(Val(x.path), prefix)}}

\* The values field k has among the records of set R.
ValuesOf(R, k) == {Val(a[k]) : a \in {x \in R : Tag(x[k]) = "num"}}

\* The value of record a in category dimension d, as text, or Null.
DimValue(a, d) ==
  LET Text(v) == CASE Tag(v) = "str" -> v
                   [] Tag(v) = "num" -> Str(ToText(Val(v)))
                   [] OTHER -> Null
  IN CASE d = "kind" -> Text(a.kind)
       [] d = "containerFormat" -> Text(Member(a.container, "formatName"))
       [] d = "videoCodec" -> Text(Member(a.video, "codec"))
       [] d = "pixelFormat" -> Text(Member(a.video, "pixelFormat"))
       [] d = "frameRate" -> Text(Member(a.video, "frameRate"))
       [] d = "audioCodec" -> Text(Member(a.audio, "codec"))
       [] d = "audioSampleRate" -> Text(Member(a.audio, "sampleRate"))
       [] d = "audioChannels" -> Text(Member(a.audio, "channels"))
       [] d = "resolution" ->
            IF Tag(Member(a.video, "width")) = "num" /\ Tag(Member(a.video, "height")) = "num"
            THEN Str(ToText(Val(Member(a.video, "width"))) \o <<"x">>
                     \o ToText(Val(Member(a.video, "height"))))
            ELSE Null

\* Dashboard out aggregates exactly the ok records R, with E the error
\* records: counts and sums over R, ranges over the values R has, and in each
\* dimension an entry per value of R that counts the records having it.
AggregatesOver(out, R, E) ==
  /\ out.totals.analyzedOkCount = Cardinality(R)
  /\ out.totals.analyzedErrorCount = Cardinality(E)
  /\ out.totals.totalSizeBytes = SumOver([a \in R |-> IF Tag(a.sizeBytes) = "num" THEN Val(a.sizeBytes) ELSE 0])
  /\ out.totals.totalDurationSec = SumOver([a \in R |-> IF Tag(a.durationSec) = "num" THEN Val(a.durationSec) ELSE 0])
  /\ ValuesOf(R, "bitRate") # {} => out.totals.bitRate = RangeOf(ValuesOf(R, "bitRate"))
  /\ ValuesOf(R, "durationSec") # {} => out.totals.durationSec = RangeOf(ValuesOf(R, "durationSec"))
  /\ \A d \in DOMAIN out.counts :
       /\ \A i \in 1..Len(out.counts[d]) :
            out.counts[d][i].count =
              Cardinality({a \in R : DimValue(a, d) = Str(out.counts[d][i].key)})
       /\ \A a \in R :
            DimValue(a, d) \notin {Null, Str(<<>>)} =>
              \E i \in 1..Len(out.counts[d]) : Str(out.counts[d][i].key) = DimValue(a, d)

\* C10: the dashboard getDashboardFromDb(scopePrefix) returns aggregates
\* exactly the ok records stored under a path that starts with scopePrefix;
\* error records count in analyzedErrorCount only, records outside the prefix
\* nowhere.
C10_OkInPrefixOnly ==
  [][(dbDash.st = "run" /\ dbDash'.st = "done") =>
       AggregatesOver(dbDash'.out,
                      OkInScope(table, Val(dbDash.scopePrefix)),
                      ErrInScope(table, Val(dbDash.scopePrefix)))]_vars

----------------------------------------------------------------------------
(* dashboard.js: the aggregator over a list of records *)

\* get(obj, 'k1.k2') on a record a: undefined as soon as a step is not an
\* object.
Get2(a, k1, k2) == IF Tag(a[k1]) = "obj" THEN Member(a[k1], k2) ELSE Undef

sUnknownKey == <<"(", "u", "n", "k", "n", "o", "w", "n", ")">>

\* String(value) of a value that is neither a string nor null nor undefined.
StringOf(value) ==
  CASE Tag(value) = "num" -> ToText(Val(value))
    [] Tag(value) = "nan" -> <<"N", "a", "N">>
    [] OTHER -> <<"[", "o", "b", "j", "e", "c", "t", "]">>

normalizeKey(value) ==
  IF IsNullish(value) THEN sUnknownKey
  ELSE IF Tag(value) = "str"
  THEN (IF Len(Trim(Val(value))) > 0 THEN Trim(Val(value)) ELSE sUnknownKey)
  ELSE StringOf(value)

RECURSIVE SortCounts(_)
\* The {key, count} entries of set S by count descending, then key ascending.
SortCounts(S) ==
  IF S = {} THEN <<>>
  ELSE LET e == CHOOSE x \in S :
                  \A y \in S \ {x} :
                    \/ x.count > y.count
                    \/ x.count = y.count /\ StrLess(x.key, y.key)
       IN <<e>> \o SortCounts(S \ {e})

\* countBy with the nullish keys left out instead of put under "(unknown)".
countBySkipNullish(keys) ==
  LET known == SelectSeq(keys, LAMBDA v : ~IsNullish(v))
      ks == {normalizeKey(known[i]) : i \in 1..Len(known)}
  IN SortCounts({[key |-> k,
                  count |-> Cardinality({i \in 1..Len(known) :
                                           normalizeKey(known[i]) = k})] : k \in ks})

\* countBy(items, keyFn), given keys[i] = keyFn(items[i]).
countBy(keys) ==
  LET ks == {normalizeKey(keys[i]) : i \in 1..Len(keys)}
  IN SortCounts({[key |-> k,
                  count |-> Cardinality({i \in 1..Len(keys) :
                                           normalizeKey(keys[i]) = k})] : k \in ks})

RECURSIVE sum(_)
\* sum(items, valueFn), given values[i] = valueFn(items[i]).
sum(values) ==
  IF Len(values) = 0 THEN 0
  ELSE LET v == ToNumber(values[Len(values)])
       IN sum(SubSeq(values, 1, Len(values) - 1)) + (IF IsFinite(v) THEN Val(v) ELSE 0)

RECURSIVE minMax(_)
\* minMax(items, valueFn), given values[i] = valueFn(items[i]).
minMax(values) ==
  IF Len(values) = 0 THEN [min |-> Null, max |-> Null]
  ELSE LET before == minMax(SubSeq(values, 1, Len(values) - 1))
           v == ToNumber(values[Len(values)])
       IN IF ~IsFinite(v) THEN before
          ELSE [min |-> IF before.min = Null \/ Val(v) < Val(before.min)
                        THEN v ELSE before.min,
                max |-> IF before.max = Null \/ Val(v) > Val(before.max)
                        THEN v ELSE before.max]

resolutionKey(a) ==
  LET w == Get2(a, "video", "width")
      h == Get2(a, "video", "height")
  IN IF Tag(w) # "num" \/ Tag(h) # "num" THEN Null
     ELSE IF Val(w) <= 0 \/ Val(h) <= 0 THEN Null
     ELSE Str(ToText(Val(w)) \o <<"x">> \o ToText(Val(h)))

\* all.filter((a) => a && !a.error)
OkRecords(all) == SelectSeq(all, LAMBDA a : ~Truthy(a.error))

\* The error filter with a name demanded as well.
ErrorRecordsNamed(all) ==
  SelectSeq(all, LAMBDA a : Truthy(a.error) /\ Truthy(a.name))

\* all.filter((a) => a && a.error)
ErrorRecords(all) == SelectSeq(all, LAMBDA a : Truthy(a.error))

buildDashboard(all) ==
  LET ok == OkRecords(all)
      errors == ErrorRecords(all)
  IN [totals |->
        [selectedCount |-> Len(all),
         analyzedOkCount |-> Len(ok),
         analyzedErrorCount |-> Len(errors),
         totalSizeBytes |-> sum([i \in 1..Len(ok) |-> ok[i].sizeBytes]),
         totalDurationSec |-> sum([i \in 1..Len(ok) |-> ok[i].durationSec]),
         bitRate |-> minMax([i \in 1..Len(ok) |-> ok[i].bitRate]),
         durationSec |-> minMax([i \in 1..Len(ok) |-> ok[i].durationSec])],
      counts |->
        [kind |-> countBy([i \in 1..Len(ok) |-> ok[i].kind]),
         containerFormat |-> countBy([i \in 1..Len(ok) |-> Get2(ok[i], "container", "formatName")]),
         videoCodec |-> countBy([i \in 1..Len(ok) |-> Get2(ok[i], "video", "codec")]),
         audioCodec |-> countBy([i \in 1..Len(ok) |-> Get2(ok[i], "audio", "codec")]),
         resolution |-> countBy([i \in 1..Len(ok) |-> resolutionKey(ok[i])])]]

\* Longest list of records buildDashboard is given.
MaxList == 3

\* The lists /api/analyze and /api/db/analyses hand to buildDashboard.
DashLists == SeqsUpTo(Records, MaxList)

InitDash ==
  /\ pool = "pool"
  /\ dbUp = TRUE
  /\ table = EmptyBag
  /\ upserts = [c \in CallSites |-> Idle]
  /\ lastWrite = [p \in Paths |-> NoRecord]
  /\ errOverOk = FALSE
  /\ getCall = Idle
  /\ search = Idle
  /\ options = Idle
  /\ dbDash = Idle
  /\ dashInput \in DashLists
  /\ dashboard = Idle
  /\ cmpInput = <<>>
  /\ comparison = Idle
  /\ tree = Paths
  /\ searchReq = Idle
  /\ analyzeReq = Idle
  /\ analyzeCall = Idle
  /\ pathReq = Idle
  /\ thumbCache = {}
  /\ thumbCacheOrder = <<>>
  /\ disk = [p \in Paths |-> StatFile(1, 1)]
  /\ pending = [p \in Paths |-> 0]
  /\ timers = {}
  /\ lastSignatureByRelPath = [p \in Paths |-> <<>>]
  /\ runs = {}
  /\ watchLog = [events |-> 0, since |-> [p \in Paths |-> 0], latest |-> [p \in Paths |-> 0], bursts |-> [p \in Paths |-> <<>>], fired |-> [ev |-> 0], compared |-> [ev |-> 0], lastGood |-> [p \in Paths |-> <<>>], unseen |-> {}]
  /\ matches = Idle
  /\ allReq = Idle
  /\ boot = Idle
  /\ thumbCall = Idle

\* const dashboard = buildDashboard(results)
BuildDashboard ==
  /\ dashboard.st = "idle"
  /\ dashboard' = [st |-> "done", out |-> buildDashboard(dashInput)]
  /\ UNCHANGED <<thumbCall,
               boot,
               allReq,
               matches,
               disk, pending, timers, lastSignatureByRelPath, runs, watchLog,
               pathReq, thumbCache, thumbCacheOrder,
               analyzeReq, analyzeCall,
               tree, searchReq,
               cmpInput, comparison,
               pool, dbUp, table, upserts, lastWrite, errOverOk, getCall,
                 search, options, dbDash, dashInput>>

NextDash == BuildDashboard

SpecDash == InitDash /\ [][NextDash]_vars

RECURSIVE SumCounts(_)
SumCounts(entries) ==
  IF Len(entries) = 0 THEN 0 ELSE entries[1].count + SumCounts(Tail(entries))

\* C7: the ok count and the error count of a dashboard add up to the number
\* of records it was built from.
C7_CountsAddUp ==
  dashboard.st = "done" =>
    dashboard.out.totals.analyzedOkCount + dashboard.out.totals.analyzedErrorCount
      = Len(dashInput)

\* A dashboard of two ok records and the error record of a directory.
C7_Witness ==
  /\ dashboard.st = "done"
  /\ dashInput = <<RecFilmAV, RecDirSV, RecStillAW>>
  /\ dashboard.out.totals.analyzedOkCount = 2
  /\ dashboard.out.totals.analyzedErrorCount = 1

\* C8: in every dimension the counts of the entries sum to the ok count, and
\* the entry of a key counts the ok records whose value normalizes to it, a
\* blank or absent value to "(unknown)".
C8_BucketsCoverOk ==
  dashboard.st = "done" =>
    \A d \in DOMAIN dashboard.out.counts :
      /\ SumCounts(dashboard.out.counts[d]) = dashboard.out.totals.analyzedOkCount
      /\ \A i \in 1..Len(dashInput) :
           dashInput[i].error = Undef =>
             LET v == CASE d = "kind" -> dashInput[i].kind
                        [] d = "containerFormat" -> Member(dashInput[i].container, "formatName")
                        [] d = "videoCodec" -> Member(dashInput[i].video, "codec")
                        [] d = "audioCodec" -> Member(dashInput[i].audio, "codec")
                        [] d = "resolution" -> resolutionKey(dashInput[i])
                 k == IF v \in {Undef, Null} \/ v = Str(<<>>) THEN sUnknownKey ELSE Val(v)
             IN \E j \in 1..Len(dashboard.out.counts[d]) :
                  dashboard.out.counts[d][j].key = k

\* A film and a sound track: the video codec dimension has one record under
\* h264 and one under "(unknown)".
C8_Witness ==
  /\ dashboard.st = "done"
  /\ dashInput = <<RecFilmAV, RecSoundAW>>
  /\ dashboard.out.counts.videoCodec =
       <<[key |-> sUnknownKey, count |-> 1], [key |-> sH264, count |-> 1]>>

\* The finite values field k has among the ok records of the list.
FiniteValues(all, k) ==
  {Val(all[i][k]) : i \in {j \in 1..Len(all) : all[j].error = Undef /\ Tag(all[j][k]) = "num"}}

\* C9: the bitRate and durationSec ranges of a dashboard are {null, null}
\* when no ok record has a value for the field, else the minimum and maximum
\* over the ok records with a finite value.
C9_RangeOverValues ==
  dashboard.st = "done" =>
    /\ dashboard.out.totals.bitRate = RangeOf(FiniteValues(dashInput, "bitRate"))
    /\ dashboard.out.totals.durationSec = RangeOf(FiniteValues(dashInput, "durationSec"))

----------------------------------------------------------------------------
(* compare.js: the comparator *)

\* get(obj, path) once path is split at the dots: the walk down from cur.
RECURSIVE GetPath(_, _)
GetPath(cur, parts) ==
  IF Len(parts) = 0 THEN cur
  ELSE IF ~Truthy(cur) \/ Tag(cur) \notin {"obj", "arr"} THEN Undef
  ELSE GetPath(Member(cur, Head(parts)), Tail(parts))

\* The walk that stops at the first key.
getShallow(obj, parts) == Member(Obj(obj), Head(parts))

\* parts is path.split('.').
get(obj, parts) == GetPath(Obj(obj), parts)

\* normalizeForCompare that lets every value through.
normalizeNothing(value) == value

normalizeForCompare(value) ==
  IF value = Undef THEN Null
  ELSE IF value = Str(<<>>) THEN Null
  ELSE value

\* a === b for two values that are not one and the same object.
StrictEquals(a, b) == a = b /\ Tag(a) \notin {"nan", "obj", "arr"}

\* The comparison fields, each split at its dots.
fields ==
  <<<<"kind">>, <<"sizeBytes">>, <<"container", "formatName">>,
    <<"video", "codec">>, <<"video", "width">>, <<"video", "height">>,
    <<"audio", "codec">>, <<"audio", "sampleRate">>, <<"audio", "channels">>,
    <<"durationSec">>, <<"bitRate">>>>

FieldSet == {fields[k] : k \in DOMAIN fields}

compareAnalyses(analyses) ==
  LET items == [i \in DOMAIN analyses |->
                  [path |-> Coalesce(analyses[i].path, Null),
                   name |-> Coalesce(analyses[i].name, Null),
                   analysis |-> analyses[i]]]
      values == [f \in FieldSet |->
                   [i \in DOMAIN items |-> normalizeForCompare(get(items[i].analysis, f))]]
      allSame == {f \in FieldSet :
                    /\ Tag(values[f][1]) # "nan"
                    /\ \A i \in DOMAIN items \ {1} : StrictEquals(values[f][i], values[f][1])}
  IN [count |-> Len(items),
      files |-> [i \in DOMAIN items |-> [path |-> items[i].path, name |-> items[i].name]],
      similarities |-> [f \in allSame |-> values[f][1]],
      differences |->
        [f \in FieldSet \ allSame |->
           [i \in DOMAIN items |-> [path |-> items[i].path, value |-> values[f][i]]]]]

\* A stream of type t that reports nothing but its type.
BareStream(t) == Obj([codec_type |-> Str(t)])

sVp9 == <<"v", "p", "9">>
sWebm == <<"w", "e", "b", "m">>

\* The probe outputs the compared records are made from: a film, and the
\* film with one thing reported differently or not at all.
CompareProbes ==
  LET f == Val(Val(ProbeFilm).format)
      v == Val(VideoStream)
      a == Val(AudioStream)
      film(fmt, vs, as) == Obj([format |-> Obj(fmt), streams |-> Arr(<<Obj(vs), Obj(as)>>)])
  IN {ProbeFilm,
      film([f EXCEPT !.format_name = Str(sWebm)], v, a),
      film([f EXCEPT !.duration = Str(<<"1", "0">>)], v, a),
      film([k \in DOMAIN f \ {"duration"} |-> f[k]], v, a),
      film([f EXCEPT !.bit_rate = Num(5)], v, a),
      film(f, [v EXCEPT !.codec_name = Str(sVp9)], a),
      film(f, [v EXCEPT !.width = Num(4)], a),
      film(f, [k \in DOMAIN v \ {"width"} |-> v[k]], a),
      film(f, [v EXCEPT !.height = Num(3)], a),
      film(f, v, [a EXCEPT !.codec_name = Str(sH264)]),
      film(f, v, [a EXCEPT !.sample_rate = Str(<<"9">>)]),
      film(f, v, [a EXCEPT !.channels = Num(1)]),
      Obj([format |-> Obj(f), streams |-> Arr(<<Obj(v)>>)]),
      Obj([format |-> Obj(f), streams |-> Arr(<<Obj(v), BareStream(sAudio)>>)])}

\* The pairs of ok records /api/compare is given: a record of one file and a
\* record of another, of the same size or not.
CompareLists ==
  {<<normalizeAnalysis(PathAV, StatFile(1, 1), p), normalizeAnalysis(PathAW, StatFile(s, 2), q)>> :
     p \in CompareProbes, q \in CompareProbes, s \in 1..2}

InitCompare ==
  /\ pool = "pool"
  /\ dbUp = TRUE
  /\ table = EmptyBag
  /\ upserts = [c \in CallSites |-> Idle]
  /\ lastWrite = [p \in Paths |-> NoRecord]
  /\ errOverOk = FALSE
  /\ getCall = Idle
  /\ search = Idle
  /\ options = Idle
  /\ dbDash = Idle
  /\ dashInput = <<>>
  /\ dashboard = Idle
  /\ cmpInput \in CompareLists
  /\ comparison = Idle
  /\ tree = Paths
  /\ searchReq = Idle
  /\ analyzeReq = Idle
  /\ analyzeCall = Idle
  /\ pathReq = Idle
  /\ thumbCache = {}
  /\ thumbCacheOrder = <<>>
  /\ disk = [p \in Paths |-> StatFile(1, 1)]
  /\ pending = [p \in Paths |-> 0]
  /\ timers = {}
  /\ lastSignatureByRelPath = [p \in Paths |-> <<>>]
  /\ runs = {}
  /\ watchLog = [events |-> 0, since |-> [p \in Paths |-> 0], latest |-> [p \in Paths |-> 0], bursts |-> [p \in Paths |-> <<>>], fired |-> [ev |-> 0], compared |-> [ev |-> 0], lastGood |-> [p \in Paths |-> <<>>], unseen |-> {}]
  /\ matches = Idle
  /\ allReq = Idle
  /\ boot = Idle
  /\ thumbCall = Idle

\* POST /api/compare for a list of at least two records.
Compare ==
  /\ comparison.st = "idle"
  /\ Len(cmpInput) >= 2
  /\ comparison' = [st |-> "done", out |-> compareAnalyses(cmpInput)]
  /\ UNCHANGED <<thumbCall,
               boot,
               allReq,
               matches,
               disk, pending, timers, lastSignatureByRelPath, runs, watchLog,
               pathReq, thumbCache, thumbCacheOrder,
               analyzeReq, analyzeCall,
               tree, searchReq,
               pool, dbUp, table, upserts, lastWrite, errOverOk, getCall,
                 search, options, dbDash, dashInput, dashboard, cmpInput>>

NextCompare == Compare

SpecCompare == InitCompare /\ [][NextCompare]_vars

\* The comparison fields in which records a and b hold different values.
Differing(a, b) == {f \in FieldSet : get(a, f) # get(b, f)}

\* C11: comparing two ok records that agree in every comparison field puts
\* all the fields under similarities and none under differences; when they
\* disagree in exactly one field, that field alone is under differences, with
\* the value of either record beside its path in input order, and the other
\* fields are under similarities with the value the records share.
C11_OneFieldMoves ==
  comparison.st = "done" =>
    LET a == cmpInput[1]
        b == cmpInput[2]
        out == comparison.out
    IN /\ Differing(a, b) = {} =>
            /\ DOMAIN out.similarities = FieldSet
            /\ DOMAIN out.differences = {}
       /\ \A f \in FieldSet :
            Differing(a, b) = {f} =>
              /\ DOMAIN out.differences = {f}
              /\ out.differences[f] =
                   <<[path |-> a.path, value |-> get(a, f)],
                     [path |-> b.path, value |-> get(b, f)]>>
              /\ DOMAIN out.similarities = FieldSet \ {f}
              /\ \A g \in FieldSet \ {f} : out.similarities[g] = get(a, g)

\* Two films that differ in video.width alone were compared: the widths 2 and
\* 4 stand under differences, the ten other fields under similarities.
C11_Witness ==
  /\ comparison.st = "done"
  /\ Differing(cmpInput[1], cmpInput[2]) = {<<"video", "width">>}
  /\ comparison.out.differences[<<"video", "width">>] =
       <<[path |-> Str(PathAV), value |-> Num(2)], [path |-> Str(PathAW), value |-> Num(4)]>>
  /\ Cardinality(DOMAIN comparison.out.similarities) = 10

----------------------------------------------------------------------------
(* fsBrowse.js: resolution of a relative path against the media root *)

RECURSIVE StripLeading(_, _)
\* s.replace(/^c+/, '')
StripLeading(s, c) ==
  IF Len(s) > 0 /\ s[1] = c THEN StripLeading(Tail(s), c) ELSE s

RECURSIVE StripTrailing(_, _)
\* s.replace(/c+$/, '')
StripTrailing(s, c) ==
  IF Len(s) > 0 /\ s[Len(s)] = c THEN StripTrailing(SubSeq(s, 1, Len(s) - 1), c) ELSE s

\* relPath is a JavaScript value; (relPath ?? '').toString() of a string is
\* the string itself.
normalizeRel(relPath) ==
  LET raw == StringOr(Coalesce(relPath, Str(<<>>)))
      cleaned == [i \in 1..Len(raw) |-> IF raw[i] = "\\" THEN "/" ELSE raw[i]]
  IN StripTrailing(StripLeading(cleaned, "/"), "/")

RECURSIVE SplitAt(_, _)
\* s.split(c): the pieces of s between the occurrences of character c.
SplitAt(s, c) ==
  IF \E i \in 1..Len(s) : s[i] = c
  THEN LET i == CHOOSE k \in 1..Len(s) : s[k] = c /\ \A j \in 1..(k - 1) : s[j] # c
       IN <<SubSeq(s, 1, i - 1)>> \o SplitAt(SubSeq(s, i + 1, Len(s)), c)
  ELSE <<s>>

RECURSIVE Segments(_, _)
\* The directory stack of path.resolve: the segments of pieces taken one by
\* one on top of stack acc; '' and '.' are dropped, '..' pops (the root has
\* no parent).
Segments(pieces, acc) ==
  IF Len(pieces) = 0 THEN acc
  ELSE LET p == Head(pieces)
       IN Segments(Tail(pieces),
                   IF p = <<>> \/ p = <<".">> THEN acc
                   ELSE IF p = <<".", ".">>
                   THEN (IF Len(acc) = 0 THEN acc ELSE SubSeq(acc, 1, Len(acc) - 1))
                   ELSE Append(acc, p))

RECURSIVE JoinAbs(_)
\* The absolute path of a directory stack: '/' for the empty one.
JoinAbs(segs) ==
  IF Len(segs) = 0 THEN <<"/">>
  ELSE IF Len(segs) = 1 THEN <<"/">> \o segs[1]
  ELSE JoinAbs(SubSeq(segs, 1, Len(segs) - 1)) \o <<"/">> \o segs[Len(segs)]

\* path.resolve(a, b) on POSIX for an absolute a; an absolute b replaces a.
PathResolve(a, b) ==
  IF Len(b) > 0 /\ b[1] = "/" THEN JoinAbs(Segments(SplitAt(b, "/"), <<>>))
  ELSE JoinAbs(Segments(SplitAt(a, "/") \o SplitAt(b, "/"), <<>>))

\* process.env.MEDIA_ROOT ?? '/media'
mediaRoot == <<"/", "m", "e", "d", "i", "a">>

\* The resolution without the test of the result against the root.
resolveUnchecked(root, relPath) ==
  [thrown |-> FALSE, rootAbs |-> PathResolve(<<"/">>, root),
   targetAbs |-> PathResolve(PathResolve(<<"/">>, root), normalizeRel(relPath)),
   relative |-> normalizeRel(relPath)]

\* resolveWithinRoot: thrown is TRUE when it throws 'Path escapes MEDIA_ROOT'.
resolveWithinRoot(root, relPath) ==
  LET rel == normalizeRel(relPath)
      rootAbs == PathResolve(<<"/">>, root)
      targetAbs == PathResolve(rootAbs, rel)
      rootWithSep == IF rootAbs[Len(rootAbs)] = "/" THEN rootAbs ELSE rootAbs \o <<"/">>
      isRoot == targetAbs = rootAbs
      isWithin == isRoot \/ StartsWith(targetAbs, rootWithSep)
  IN IF ~isWithin THEN [thrown |-> TRUE]
     ELSE [thrown |-> FALSE, rootAbs |-> rootAbs, targetAbs |-> targetAbs,
           relative |-> rel]

----------------------------------------------------------------------------
(* server.js: POST /api/search *)

\* typeof v === 'string' ? v : d
StringOrElse(v, d) == IF Tag(v) = "str" THEN Val(v) ELSE d

sAll == <<"a", "l", "l">>
sCurrent == <<"c", "u", "r", "r", "e", "n", "t">>

\* The members a request body of /api/search can carry.
NoBody ==
  [kind |-> Undef, container |-> Undef, videoCodec |-> Undef, audioCodec |-> Undef,
   resolution |-> Undef, name |-> Undef, scope |-> Undef, basePath |-> Undef,
   limit |-> Undef, offset |-> Undef]

\* The filters as strings, then wrapped as the values searchAnalysesPaged
\* receives.
pickSearchFilters(body) ==
  [kind |-> StringOr(body.kind), container |-> StringOr(body.container),
   videoCodec |-> StringOr(body.videoCodec), audioCodec |-> StringOr(body.audioCodec),
   resolution |-> StringOr(body.resolution), name |-> StringOr(body.name),
   scope |-> StringOrElse(body.scope, sAll), basePath |-> StringOr(body.basePath)]

parseNonNegInt(val, fallback) ==
  LET n == ToNumber(val)
  IN IF ~IsFinite(n) THEN fallback
     ELSE IF Val(n) >= 0 THEN Val(n) ELSE fallback

Max(a, b) == IF a >= b THEN a ELSE b

\* safeLimit and safeOffset of the route (limit || 100, offset || 0).
RouteLimit(body) ==
  LET limit == parseNonNegInt(body.limit, 100)
  IN Max(1, Min(IF limit = 0 THEN 100 ELSE limit, MaxLimit))

RouteOffset(body) == Max(0, parseNonNegInt(body.offset, 0))

\* filters.name.toLowerCase(), the name as it is given
NameQueryUntrimmed(filters) == ToLowerCase(filters.name)

\* nameQ: filters.name.trim().toLowerCase()
NameQuery(filters) == ToLowerCase(Trim(filters.name))

\* Whether the kind alone is set.
NeedsMetaKindOnly(filters) == Len(filters.kind) > 0

\* needsMeta: whether a metadata filter is set
NeedsMeta(filters) ==
  \/ Len(filters.kind) > 0
  \/ Len(filters.container) > 0
  \/ Len(filters.videoCodec) > 0
  \/ Len(filters.audioCodec) > 0
  \/ Len(filters.resolution) > 0

\* s.startsWith(q) in the place of s.includes(q)
IncludesAtStart(s, q) == StartsWith(s, q)

\* String.prototype.includes
Includes(s, q) == \E i \in 0..(Len(s) - Len(q)) : SubSeq(s, i + 1, i + Len(q)) = q

\* The orders listAllFilesRecursive can list the files of set T in: the
\* entries of a directory come in the order readdir yields them, the files
\* of one directory next to each other.
Listings(T) ==
  LET Dir(p) == SubSeq(p, 1, LastIndexOf(p, "/"))
  IN {l \in SeqsUpTo(T, Cardinality(T)) :
        /\ Len(l) = Cardinality(T)
        /\ \A i, j \in 1..Len(l) : i # j => l[i] # l[j]
        /\ \A i, j, k \in 1..Len(l) :
             (i < j /\ j < k /\ Dir(l[i]) = Dir(l[k])) => Dir(l[j]) = Dir(l[i])}

\* items.slice(from, to) with 0 <= from <= to
Slice(items, from, to) ==
  SubSeq(items, from + 1, Min(to, Len(items)))

\* The body of a 200 answer of /api/search.
SearchAnswer(results, total, limit, offset) ==
  [status |-> 200, results |-> results, total |-> total, limit |-> limit,
   offset |-> offset]

\* {path: p, name: basename(p), analyzed: false}
Unanalyzed(p) ==
  [rec |-> [NoRecord EXCEPT !.path = Str(p), !.name = Str(Basename(p))],
   analyzed |-> FALSE]

\* {...a, analyzed: true}
Analyzed(a) == [rec |-> a, analyzed |-> TRUE]

\* A finished request: its answer, whether the file tree was listed for it
\* and the number of store operations it called.
Answered(body, answer, walked, storeCalls, listing) ==
  [st |-> "done", body |-> body, res |-> answer, walked |-> walked,
   storeCalls |-> storeCalls, listing |-> listing]

\* POST /api/search up to its first call of the store or, when it makes
\* none, to its answer.  The store calls of the request before it are
\* forgotten.
SearchRequest(body) ==
  /\ searchReq.st \in {"idle", "done"}
  /\ LET filters == pickSearchFilters(body)
         nameQ == NameQuery(filters)
         safeLimit == RouteLimit(body)
         safeOffset == RouteOffset(body)
         needsMeta == NeedsMeta(filters)
         resolved == resolveWithinRoot(mediaRoot, Str(filters.basePath))
         scopePrefix == IF filters.scope # sCurrent THEN <<>>
                        ELSE IF Len(resolved.relative) > 0
                        THEN resolved.relative \o <<"/">>
                        ELSE <<>>
         empty == SearchAnswer(<<>>, 0, safeLimit, safeOffset)
     IN IF Len(nameQ) = 0 /\ ~needsMeta
        THEN /\ searchReq' = Answered(body, empty, FALSE, 0, <<>>)
             /\ search' = Idle /\ getCall' = Idle
        ELSE IF filters.scope = sCurrent /\ resolved.thrown
        THEN /\ searchReq' = Answered(body, [status |-> 500], FALSE, 0, <<>>)
             /\ search' = Idle /\ getCall' = Idle
        ELSE IF needsMeta
        THEN IF pool = "null"
             THEN /\ searchReq' = Answered(body, empty, FALSE, 0, <<>>)
                  /\ search' = Idle /\ getCall' = Idle
             ELSE /\ searchReq' =
                       [st |-> "paged", body |-> body, walked |-> FALSE,
                        storeCalls |-> 1, listing |-> <<>>,
                        q |-> [f |-> [k \in DOMAIN NoFilters |-> Str(filters[k])],
                               scopePrefix |-> Str(scopePrefix),
                               limit |-> Num(safeLimit), offset |-> Num(safeOffset)]]
                  /\ search' = Idle /\ getCall' = Idle
        ELSE \E allFiles \in Listings(tree) :
               LET inScope == SelectSeq(allFiles, LAMBDA p : StartsWith(p, scopePrefix))
                   candidates == SelectSeq(inScope, LAMBDA p : Includes(ToLowerCase(p), nameQ))
                   total == Len(candidates)
                   page == Slice(candidates, safeOffset, safeOffset + safeLimit)
               IN IF pool = "null"
                  THEN /\ searchReq' =
                            Answered(body,
                                     SearchAnswer([i \in 1..Len(page) |-> Unanalyzed(page[i])],
                                                  total, safeLimit, safeOffset),
                                     TRUE, 0, allFiles)
                       /\ search' = Idle /\ getCall' = Idle
                  ELSE IF Len(page) = 0
                  THEN /\ searchReq' =
                            Answered(body, SearchAnswer(<<>>, total, safeLimit, safeOffset),
                                     TRUE, 0, allFiles)
                       /\ search' = Idle /\ getCall' = Idle
                  ELSE /\ searchReq' =
                            [st |-> "lookup", body |-> body, walked |-> TRUE,
                             storeCalls |-> 1, listing |-> allFiles, page |-> page,
                             total |-> total, limit |-> safeLimit, offset |-> safeOffset]
                       /\ search' = Idle /\ getCall' = Idle
  /\ UNCHANGED <<thumbCall,
               boot,
               allReq,
               matches,
               disk, pending, timers, lastSignatureByRelPath, runs, watchLog,
               pathReq, thumbCache, thumbCacheOrder,
               analyzeReq, analyzeCall,
               pool, dbUp, table, upserts, lastWrite, errOverOk, options, dbDash,
                 dashInput, dashboard, cmpInput, comparison, tree>>

\* The rest of the route once the store call it awaits has settled: the
\* answer built from the page of the store, or from the page of the listing
\* joined with the records found; 500 when the call rejected.
SearchRespond ==
  /\ \/ searchReq.st = "paged" /\ search.st \in {"done", "rejected"}
     \/ searchReq.st = "lookup" /\ getCall.st \in {"done", "rejected"}
  /\ LET r == searchReq
         done(answer) == Answered(r.body, answer, r.walked, r.storeCalls, r.listing)
     IN IF r.st = "paged"
        THEN IF search.st = "rejected" THEN searchReq' = done([status |-> 500])
             ELSE LET kept == SelectSeq(search.items, LAMBDA a : Truthy(a.path))
                  IN searchReq' =
                       done(SearchAnswer([i \in 1..Len(kept) |-> Analyzed(kept[i])],
                                         search.total, search.limit, search.offset))
        ELSE IF getCall.st = "rejected" THEN searchReq' = done([status |-> 500])
             ELSE LET found(p) ==
                        {i \in 1..Len(getCall.res) :
                           Truthy(getCall.res[i].path) /\ getCall.res[i].path = Str(p)}
                      last(p) == CHOOSE i \in found(p) : \A j \in found(p) : j <= i
                  IN searchReq' =
                       done(SearchAnswer(
                              [i \in 1..Len(r.page) |->
                                 IF found(r.page[i]) # {}
                                 THEN Analyzed(getCall.res[last(r.page[i])])
                                 ELSE Unanalyzed(r.page[i])],
                              r.total, r.limit, r.offset))
  /\ UNCHANGED <<thumbCall,
               boot,
               allReq,
               matches,
               disk, pending, timers, lastSignatureByRelPath, runs, watchLog,
               pathReq, thumbCache, thumbCacheOrder,
               analyzeReq, analyzeCall,
               pool, dbUp, table, upserts, lastWrite, errOverOk, getCall, search,
                 options, dbDash, dashInput, dashboard, cmpInput, comparison, tree>>

\* The request bodies of the search specification: without any filter (scope
\* all, scope current, a blank name with a base path outside the root), by
\* name alone (a file name in capitals, the name of a directory, under a/, the
\* second page, a base path outside the root), and with a metadata filter.
SearchBodies ==
  LET aDir == Str(<<"a">>)
      out == Str(<<".", ".", "/", "x">>)
      cur == Str(sCurrent)
  IN {NoBody,
      [NoBody EXCEPT !.scope = cur, !.basePath = aDir],
      [NoBody EXCEPT !.name = Str(<<" ", " ">>), !.scope = cur, !.basePath = out],
      [NoBody EXCEPT !.name = Str(<<"V">>)],
      [NoBody EXCEPT !.name = Str(<<"a">>)],
      [NoBody EXCEPT !.name = Str(<<"v">>), !.scope = cur, !.basePath = aDir,
                     !.limit = Num(1)],
      [NoBody EXCEPT !.name = Str(<<"v">>), !.limit = Num(1), !.offset = Num(1)],
      [NoBody EXCEPT !.name = Str(<<"v">>), !.scope = cur, !.basePath = out],
      [NoBody EXCEPT !.kind = Str(sVideo)],
      [NoBody EXCEPT !.kind = Str(sVideo), !.name = Str(<<"w">>), !.scope = cur,
                     !.basePath = aDir],
      [NoBody EXCEPT !.audioCodec = Str(sAac), !.name = Str(<<"v">>), !.limit = Num(1)]}

\* The media trees of the search specification.
SearchTrees == {{PathAW}, Paths}

\* What the watcher stores while searches run.
RouteBatches == {<<RecFilmAV>>, <<RecErrAV>>, <<RecSoundAW>>}

InitRoute ==
  /\ pool \in {"null", "pool"}
  /\ dbUp = TRUE
  /\ table = EmptyBag
  /\ upserts = [c \in CallSites |-> Idle]
  /\ lastWrite = [p \in Paths |-> NoRecord]
  /\ errOverOk = FALSE
  /\ getCall = Idle
  /\ search = Idle
  /\ options = Idle
  /\ dbDash = Idle
  /\ dashInput = <<>>
  /\ dashboard = Idle
  /\ cmpInput = <<>>
  /\ comparison = Idle
  /\ tree \in SearchTrees
  /\ searchReq = Idle
  /\ analyzeReq = Idle
  /\ analyzeCall = Idle
  /\ pathReq = Idle
  /\ thumbCache = {}
  /\ thumbCacheOrder = <<>>
  /\ disk = [p \in Paths |-> StatFile(1, 1)]
  /\ pending = [p \in Paths |-> 0]
  /\ timers = {}
  /\ lastSignatureByRelPath = [p \in Paths |-> <<>>]
  /\ runs = {}
  /\ watchLog = [events |-> 0, since |-> [p \in Paths |-> 0], latest |-> [p \in Paths |-> 0], bursts |-> [p \in Paths |-> <<>>], fired |-> [ev |-> 0], compared |-> [ev |-> 0], lastGood |-> [p \in Paths |-> <<>>], unseen |-> {}]
  /\ matches = Idle
  /\ allReq = Idle
  /\ boot = Idle
  /\ thumbCall = Idle

NextRoute ==
  \/ searchReq.st \in {"idle", "done"} /\ \E b \in RouteBatches : UpsertStart("watcher", b)
  \/ UpsertStep("watcher")
  \/ \E body \in SearchBodies : SearchRequest(body)
  \/ searchReq.st = "paged" /\ search.st = "idle" /\ SearchCount(searchReq.q)
  \/ searchReq.st = "paged" /\ SearchList
  \/ /\ searchReq.st = "lookup"
     /\ getCall.st = "idle"
     /\ GetByPaths([i \in 1..Len(searchReq.page) |-> Str(searchReq.page[i])])
  \/ SearchRespond

SpecRoute == InitRoute /\ [][NextRoute]_vars

\* Whether the body carries a name to search for: a string that is not blank.
HasName(body) == Tag(body.name) = "str" /\ Len(Trim(Val(body.name))) > 0

\* Whether the body sets one of the five metadata filters.
HasMeta(body) ==
  \E k \in {"kind", "container", "videoCodec", "audioCodec", "resolution"} :
    Tag(body[k]) = "str" /\ Len(Val(body[k])) > 0

\* C12: a search request without a name and without a metadata filter is
\* answered with no result and total 0, whatever its scope, and neither the
\* file tree is listed nor the store called for it.
C12_NoFilterNoWork ==
  (searchReq.st # "idle" /\ ~HasName(searchReq.body) /\ ~HasMeta(searchReq.body)) =>
    /\ searchReq.st = "done"
    /\ searchReq.res.status = 200
    /\ searchReq.res.results = <<>>
    /\ searchReq.res.total = 0
    /\ ~searchReq.walked
    /\ searchReq.storeCalls = 0

\* A request without filters for scope "current" under a/ was answered while
\* the tree held files under a/ and the store a record of one of them.
C12_Witness ==
  /\ searchReq.st = "done"
  /\ searchReq.body = [NoBody EXCEPT !.scope = Str(sCurrent), !.basePath = Str(<<"a">>)]
  /\ tree = Paths
  /\ pool = "pool"
  /\ lastWrite[PathAV] # NoRecord
  /\ searchReq.res.total = 0

\* The scope of a request: every path for scope "all", the paths under the
\* base directory for scope "current".
InRequestScope(body, p) ==
  LET dir == normalizeRel(body.basePath)
  IN (body.scope = Str(sCurrent) /\ Len(dir) > 0) => StartsWith(p, dir \o <<"/">>)

\* Whether q occurs in s as a run of consecutive characters, the case of
\* letters aside.
OccursIn(q, s) ==
  \E i \in 1..(Len(s) + 1), j \in 0..Len(s) :
    SubSeq(ToLowerCase(s), i, j) = ToLowerCase(q)

\* A name-only request whose scope lies within the media root was answered.
NameOnlyAnswered ==
  /\ searchReq.st = "done"
  /\ HasName(searchReq.body)
  /\ ~HasMeta(searchReq.body)
  /\ (searchReq.body.scope = Str(sCurrent) =>
        ~resolveWithinRoot(mediaRoot, searchReq.body.basePath).thrown)

\* The answer of the finished request is the page of the files M of the tree
\* taken in the order of the listing: total is their number, the results are
\* those from position offset on, up to limit of them; a file no record was
\* ever stored for, and every file when there is no store, stands as
\* {path, name, analyzed: false}, any other file with a record stored for it.
IsPageOfFiles(M) ==
  LET r == searchReq.res
      hits == SelectSeq(searchReq.listing, LAMBDA p : p \in M)
      page == Slice(hits, r.offset, r.offset + r.limit)
  IN /\ r.status = 200
     /\ searchReq.walked
     /\ r.total = Cardinality(M)
     /\ Len(r.results) = Len(page)
     /\ \A i \in 1..Len(page) :
          /\ r.results[i].rec.path = Str(page[i])
          /\ r.results[i].rec.name = Str(Basename(page[i]))
          /\ (pool = "null" \/ lastWrite[page[i]] = NoRecord) =>
               r.results[i] = Unanalyzed(page[i])
          /\ r.results[i].analyzed =>
               /\ pool # "null"
               /\ lastWrite[page[i]] # NoRecord
          /\ ~r.results[i].analyzed => r.results[i] = Unanalyzed(page[i])

\* C13 as stated: the files counted and shown by a name-only search are the
\* files in scope whose name contains the query, whatever the case.
C13_NameMatches ==
  NameOnlyAnswered =>
    IsPageOfFiles({p \in tree :
                     /\ InRequestScope(searchReq.body, p)
                     /\ OccursIn(Trim(Val(searchReq.body.name)), Basename(p))})

\* C13, amended: the files counted and shown by a name-only search are the
\* files in scope whose relative path, directories included, contains the
\* query, whatever the case; each file in the page window is in the results,
\* as {path, name, analyzed: false} when it has no stored record or there is
\* no store.
C13_PathMatches ==
  NameOnlyAnswered =>
    IsPageOfFiles({p \in tree :
                     /\ InRequestScope(searchReq.body, p)
                     /\ OccursIn(Trim(Val(searchReq.body.name)), p)})

\* The search for "V" over a tree of three files of which a/v.ts alone has a
\* stored record: two files match, the one without a record is shown as not
\* analyzed beside the analyzed one.
C13_Witness ==
  /\ searchReq.st = "done"
  /\ searchReq.body = [NoBody EXCEPT !.name = Str(<<"V">>)]
  /\ tree = Paths
  /\ pool = "pool"
  /\ lastWrite[PathSV] = NoRecord
  /\ searchReq.res.total = 2
  /\ \E i, j \in 1..2 :
       /\ searchReq.res.results[i] = Unanalyzed(PathSV)
       /\ searchReq.res.results[j] = Analyzed(RecFilmAV)

\* C14: a search request that sets a metadata filter is answered from the
\* store alone: the file tree is not listed for it, every result is a record
\* stored for its path, and without a store the answer has no result and
\* total 0.
C14_StoreOnly ==
  (searchReq.st # "idle" /\ HasMeta(searchReq.body)) =>
    /\ ~searchReq.walked
    /\ searchReq.st = "done" /\ searchReq.res.status = 200 =>
         /\ \A i \in 1..Len(searchReq.res.results) :
              /\ searchReq.res.results[i].analyzed
              /\ \E p \in Paths :
                   /\ searchReq.res.results[i].rec.path = Str(p)
                   /\ lastWrite[p] # NoRecord
         /\ pool = "null" => searchReq.res.results = <<>> /\ searchReq.res.total = 0

\* The search for kind video while a/w.ts is in the tree without a record and
\* the store holds the film a/v.ts: the film is the one result.
C14_Witness ==
  /\ searchReq.st = "done"
  /\ searchReq.body = [NoBody EXCEPT !.kind = Str(sVideo)]
  /\ PathAW \in tree
  /\ lastWrite[PathAW] = NoRecord
  /\ searchReq.res.results = <<Analyzed(RecFilmAV)>>
  /\ searchReq.res.total = 1

----------------------------------------------------------------------------
(* analyze.js: analyzeFiles, and POST /api/analyze built on it *)

\* Longest list of files one /api/analyze request names.
MaxFiles == 2

PathMp3 == <<"s", ".", "m", "p", "3">>
PathNoExt == <<"n">>
PathSibling == <<".", ".", "/", "m", "e", "d", "i", "a", "2", "/", "x">>
PathBackslash == <<"a", "\\", ".", ".", "\\", ".", ".", "\\", "x">>

\* A probe output without streams.
ProbeNone == Obj([format |-> Obj([format_name |-> Str(sMpegts)]), streams |-> Arr(<<>>)])

\* fs.stat rejecting with ENOENT.
StatGone == [code |-> "ENOENT"]

\* What fs.stat can answer for a relative path: the media root is a
\* directory; any other path is a regular file, a directory, or gone.
StatOutcomes(relative) ==
  IF relative = <<>> THEN {StatDir} ELSE {StatFile(1, 1), StatDir, StatGone}

\* How runFfprobe can settle: with the parsed output of the tool, or rejected
\* with the message of the failure (tool missing, exit code, parse error).
ProbeOutcomes ==
  {<<"ok", ProbeFilm>>, <<"ok", ProbeSound>>, <<"ok", ProbeStill>>, <<"ok", ProbeNone>>,
   <<"fail", Str(sProbeExit)>>}

\* The call analyzeFiles(mediaRoot, relPaths) before its first turn.
AnalyzeFilesCall(relPaths) ==
  [st |-> IF Len(relPaths) = 0 THEN "done" ELSE "run", relPaths |-> relPaths,
   i |-> 1, awaits |-> "stat", stats |-> StatGone, results |-> <<>>, statted |-> <<>>, probed |-> <<>>,
   seen |-> <<>>, probes |-> {}]

\* await runFfprobe(targetAbs): the turn of the loop for relPaths[i] goes on
\* once the promise of the probe has settled.
ProbeAwaited(c) == c.awaits = "probe"

\* A loop that begins its next turn whether or not anything is awaited.
TurnOpenAlways(c) == TRUE

\* The for loop of analyzeFiles is at the head of a turn: nothing awaited.
TurnOpen(c) == c.awaits = "stat"

\* spawn('ffprobe', ...) for relPaths[i]: the subprocess joins those of the
\* call that run (n numbers the subprocesses of the call).
Spawned(c, n) == [c EXCEPT !.probes = @ \cup {[file |-> c.i, n |-> n]}]

\* The subprocess emitted close or error: it runs no longer.
Closed(c, proc) == [c EXCEPT !.probes = @ \ {proc}]

\* The call after the record of relPaths[i] has been pushed; what was seen
\* of the path is noted beside it.
Pushed(c, record, seen) ==
  [c EXCEPT !.st = IF c.i = Len(c.relPaths) THEN "done" ELSE "run",
            !.i = c.i + 1,
            !.awaits = "stat",
            !.stats = StatGone,
            !.results = Append(c.results, record),
            !.seen = Append(c.seen, seen)]

\* One turn of the loop of analyzeFiles up to the answer of fs.stat: the
\* path is resolved and stat'ed; a failure of either rejects the call, a
\* path that is not a regular file gets its record at once.
AnalyzeStat ==
  /\ analyzeCall.st = "run"
  /\ TurnOpen(analyzeCall)
  /\ LET c == analyzeCall
         r == resolveWithinRoot(mediaRoot, Str(c.relPaths[c.i]))
     IN IF r.thrown
        THEN analyzeCall' = [c EXCEPT !.st = "rejected"]
        ELSE \E s \in StatOutcomes(r.relative) :
               LET d == [c EXCEPT !.statted = Append(c.statted, r.relative)]
               IN IF s = StatGone THEN analyzeCall' = [d EXCEPT !.st = "rejected"]
                  ELSE IF ~s.isFile
                  THEN analyzeCall' =
                         Pushed(d, NotAFileRecord(r.relative), [stats |-> s, probe |-> <<"none">>])
                  ELSE analyzeCall' =
                         [Spawned(d, Len(d.statted)) EXCEPT !.awaits = "probe", !.stats = s]
  /\ UNCHANGED <<thumbCall,
               boot,
               allReq,
               matches,
               disk, pending, timers, lastSignatureByRelPath, runs, watchLog,
               pathReq, thumbCache, thumbCacheOrder,
               pool, dbUp, table, upserts, lastWrite, errOverOk, getCall, search,
                 options, dbDash, dashInput, dashboard, cmpInput, comparison, tree,
                 searchReq, analyzeReq>>

\* The rest of the turn: the probe of the regular file settles and the
\* record of the file is pushed.
AnalyzeProbe ==
  /\ analyzeCall.st = "run"
  /\ ProbeAwaited(analyzeCall)
  /\ \E probe \in ProbeOutcomes, proc \in analyzeCall.probes :
       LET c == Closed(analyzeCall, proc)
           relative == normalizeRel(Str(c.relPaths[c.i]))
       IN analyzeCall' =
            Pushed([c EXCEPT !.probed = Append(c.probed, relative)],
                   AnalyzeOne(relative, c.stats, probe),
                   [stats |-> c.stats, probe |-> probe])
  /\ UNCHANGED <<thumbCall,
               boot,
               allReq,
               matches,
               disk, pending, timers, lastSignatureByRelPath, runs, watchLog,
               pathReq, thumbCache, thumbCacheOrder,
               pool, dbUp, table, upserts, lastWrite, errOverOk, getCall, search,
                 options, dbDash, dashInput, dashboard, cmpInput, comparison, tree,
                 searchReq, analyzeReq>>

\* The elements of req.body.files: relative paths inside the root and
\* outside it, and a value that is not a string.
FileArguments ==
  {Str(PathAV), Str(PathMp3), Str(PathNoExt), Str(<<>>), Str(PathSibling),
   Str(PathBackslash), Num(1)}

AnalyzeBodies == SeqsUpTo(FileArguments, MaxFiles)

\* POST /api/analyze up to its call of analyzeFiles: the list must not be
\* empty, every element must be a string that resolves within the root.
\* (One request is followed from the empty store.)
AnalyzeRequest(files) ==
  /\ analyzeReq.st = "idle"
  /\ pathReq.st = "idle"
  /\ LET bad == {i \in 1..Len(files) :
                   Tag(files[i]) # "str" \/ resolveWithinRoot(mediaRoot, files[i]).thrown}
         first == CHOOSE i \in bad : \A j \in bad : i <= j
         normalized == [i \in 1..Len(files) |->
                          resolveWithinRoot(mediaRoot, files[i]).relative]
     IN IF Len(files) = 0
        THEN /\ analyzeReq' = [st |-> "done", files |-> files, status |-> 400,
                               error |-> "files must be a non-empty array of relative paths"]
             /\ analyzeCall' = Idle
        ELSE IF bad # {}
        THEN /\ analyzeReq' = [st |-> "done", files |-> files, status |-> 400,
                               error |-> IF Tag(files[first]) # "str"
                                         THEN "files must be an array of strings"
                                         ELSE "Path escapes MEDIA_ROOT"]
             /\ analyzeCall' = Idle
        ELSE /\ analyzeReq' = [st |-> "analyzing", files |-> files]
             /\ analyzeCall' = AnalyzeFilesCall(normalized)
  /\ upserts' = [upserts EXCEPT !["analyze"] = Idle]
  /\ UNCHANGED <<thumbCall,
               boot,
               allReq,
               matches,
               disk, pending, timers, lastSignatureByRelPath, runs, watchLog,
               pathReq, thumbCache, thumbCacheOrder,
               pool, dbUp, table, lastWrite, errOverOk, getCall, search, options,
                 dbDash, dashInput, dashboard, cmpInput, comparison, tree, searchReq>>

\* The answer of /api/analyze: 400 with the message when analyzeFiles or
\* upsertAnalyses rejected, else the records, their dashboard and the counts
\* of the store.
AnalyzeRespond ==
  /\ analyzeReq.st = "analyzing"
  /\ \/ analyzeCall.st = "rejected"
     \/ analyzeCall.st = "done" /\ upserts["analyze"].st \in {"done", "rejected"}
  /\ analyzeReq' =
       IF analyzeCall.st = "rejected" \/ upserts["analyze"].st = "rejected"
       THEN [st |-> "done", files |-> analyzeReq.files, status |-> 400,
             error |-> "message of the error"]
       ELSE [st |-> "done", files |-> analyzeReq.files, status |-> 200,
             results |-> analyzeCall.results,
             dashboard |-> buildDashboard(analyzeCall.results),
             db |-> [attempted |-> upserts["analyze"].attempted,
                     stored |-> upserts["analyze"].stored]]
  /\ UNCHANGED <<thumbCall,
               boot,
               allReq,
               matches,
               disk, pending, timers, lastSignatureByRelPath, runs, watchLog,
               pathReq, thumbCache, thumbCacheOrder,
               pool, dbUp, table, upserts, lastWrite, errOverOk, getCall, search,
                 options, dbDash, dashInput, dashboard, cmpInput, comparison, tree,
                 searchReq, analyzeCall>>


----------------------------------------------------------------------------
(* server.js: the other requests that name relative paths *)

\* process.env.THUMB_CACHE_MAX, here 2.
THUMB_CACHE_MAX == 2

\* setThumbCache that evicts nothing.
setThumbCacheKeepAll(cache, order, key, isBuffer, len) ==
  IF ~isBuffer \/ len = 0 \/ key \in cache THEN [cache |-> cache, order |-> order]
  ELSE [cache |-> cache \cup {key}, order |-> Append(order, key)]

\* setThumbCache(key, buf) for a buffer of len bytes (isBuffer tells whether
\* buf is a buffer at all): the cache and the order list afterwards.  (The
\* keys are the non-empty strings the route builds, so if (old) holds for
\* every key shifted out of the list.)
setThumbCache(cache, order, key, isBuffer, len) ==
  IF ~isBuffer \/ len = 0 THEN [cache |-> cache, order |-> order]
  ELSE IF key \in cache THEN [cache |-> cache, order |-> order]
  ELSE LET pushed == Append(order, key)
           excess == IF Len(pushed) > THUMB_CACHE_MAX THEN Len(pushed) - THUMB_CACHE_MAX
                     ELSE 0
       IN [cache |-> (cache \cup {key}) \ {pushed[i] : i \in 1..excess},
           order |-> SubSeq(pushed, excess + 1, Len(pushed))]

\* The directory of the tree T that the absolute path targetAbs names, as a
\* path relative to rootAbs.
RelativeTo(rootAbs, targetAbs) ==
  IF targetAbs = rootAbs THEN <<>> ELSE SubSeq(targetAbs, Len(rootAbs) + 2, Len(targetAbs))

\* The entries fs.readdir yields for directory dir of tree T: name and kind.
DirEntries(T, dir) ==
  LET pre == IF dir = <<>> THEN <<>> ELSE dir \o <<"/">>
      under == {p \in T : StartsWith(p, pre) /\ Len(p) > Len(pre)}
      rest(p) == SplitAt(SubSeq(p, Len(pre) + 1, Len(p)), "/")
  IN {[name |-> rest(p)[1], isDirectory |-> Len(rest(p)) > 1] : p \in under}

\* browsePath: thrown when readdir rejects (no such directory), else the
\* listing {path, parent, dirs, files}.
browsePath(root, relPath, T) ==
  LET r == resolveWithinRoot(root, relPath)
      dir == RelativeTo(r.rootAbs, r.targetAbs)
      entries == {e \in DirEntries(T, dir) : e.name[1] # "."}
      cut == LastIndexOf(r.relative, "/")
  IN IF r.thrown \/ (dir # <<>> /\ DirEntries(T, dir) = {}) THEN [thrown |-> TRUE]
     ELSE [thrown |-> FALSE,
           path |-> r.relative,
           parent |-> IF r.relative = <<>> THEN Null
                      ELSE Str(SubSeq(r.relative, 1, IF cut = 0 THEN 0 ELSE cut - 1)),
           dirs |-> SortStrings({e.name : e \in {x \in entries : x.isDirectory}}),
           files |-> SortStrings({e.name : e \in {x \in entries : ~x.isDirectory}})]

\* An answered request of one of the three routes: what it named, the
\* status and body of the answer, and the accesses to the file system, the
\* probe tools and the store made for it, in order.
PathAnswered(route, arg, status, body, touched) ==
  [st |-> "done", route |-> route, arg |-> arg, status |-> status, body |-> body,
   touched |-> touched]

\* No request that names paths has been made yet.
NoRequestYet == analyzeReq.st = "idle" /\ pathReq.st = "idle"

\* GET /api/browse?path=arg
BrowseRequest(arg) ==
  /\ NoRequestYet
  /\ LET relPath == Str(StringOr(arg))
         resolved == resolveWithinRoot(mediaRoot, relPath)
         listing == browsePath(mediaRoot, Str(resolved.relative), tree)
     IN pathReq' =
          IF resolved.thrown
          THEN PathAnswered("browse", arg, 400, "Path escapes MEDIA_ROOT", <<>>)
          ELSE IF listing.thrown
          THEN PathAnswered("browse", arg, 400, "message of the error",
                            <<<<"readdir", resolved.targetAbs>>>>)
          ELSE PathAnswered("browse", arg, 200, listing,
                            <<<<"readdir", resolved.targetAbs>>>>)
  /\ UNCHANGED <<thumbCall,
               boot,
               allReq,
               matches,
               disk, pending, timers, lastSignatureByRelPath, runs, watchLog,
               pool, dbUp, table, upserts, lastWrite, errOverOk, getCall, search,
                 options, dbDash, dashInput, dashboard, cmpInput, comparison, tree,
                 searchReq, analyzeReq, analyzeCall, thumbCache, thumbCacheOrder>>

\* How generateThumbnailJpeg can settle: with a picture, with an empty
\* buffer, or rejected.
ThumbOutcomes == {"jpeg", "empty", "rejected"}

\* Number(w) clamped to 48..512 for a finite w, else 160.
ThumbWidth(w) ==
  LET widthRaw == IF Tag(w) = "str" THEN ToNumber(w) ELSE Num(160)
  IN IF IsFinite(widthRaw) THEN Min(Max(Val(widthRaw), 48), 512) ELSE 160

\* GET /api/thumbnail?path=arg&w=w (nothing else runs between its awaits
\* here).
ThumbnailRequest(arg, w) ==
  /\ NoRequestYet
  /\ LET relPath == StringOr(arg)
         width == ThumbWidth(w)
         resolved == resolveWithinRoot(mediaRoot, Str(relPath))
         ext == ToLowerCase(ExtName(resolved.relative))
         answer(status, body, touched) == PathAnswered("thumbnail", arg, status, body, touched)
         statted == <<<<"stat", resolved.relative>>>>
     IN IF Len(relPath) = 0
        THEN /\ pathReq' = answer(400, "path is required", <<>>)
             /\ UNCHANGED <<thumbCache, thumbCacheOrder, thumbCall>>
        ELSE IF resolved.thrown
        THEN /\ pathReq' = answer(500, "Path escapes MEDIA_ROOT", <<>>)
             /\ UNCHANGED <<thumbCache, thumbCacheOrder, thumbCall>>
        ELSE IF ext \notin VIDEO_EXT /\ ext \notin IMAGE_EXT
        THEN /\ pathReq' = answer(415, "Unsupported media type for thumbnails", <<>>)
             /\ UNCHANGED <<thumbCache, thumbCacheOrder, thumbCall>>
        ELSE \E st \in StatOutcomes(resolved.relative), jpeg \in ThumbOutcomes :
               LET cacheKey == <<resolved.relative, width, st.mtime, st.size>>
                   probed == Append(statted, <<"ffmpeg", resolved.relative>>)
                   set == setThumbCache(thumbCache, thumbCacheOrder, cacheKey, TRUE, 1)
               IN IF st = StatGone
                  THEN /\ pathReq' = answer(500, "message of the error", statted)
                       /\ UNCHANGED <<thumbCache, thumbCacheOrder, thumbCall>>
                  ELSE IF ~st.isFile
                  THEN /\ pathReq' = answer(404, "Not a file", statted)
                       /\ UNCHANGED <<thumbCache, thumbCacheOrder, thumbCall>>
                  ELSE IF cacheKey \in thumbCache
                  THEN /\ pathReq' = answer(200, "jpeg", statted)
                       /\ UNCHANGED <<thumbCache, thumbCacheOrder, thumbCall>>
                  ELSE IF jpeg = "rejected"
                  THEN /\ pathReq' = answer(500, "message of the error", probed)
                       /\ UNCHANGED <<thumbCache, thumbCacheOrder, thumbCall>>
                  ELSE IF jpeg = "empty"
                  THEN /\ pathReq' = answer(404, "Failed to generate thumbnail", probed)
                       /\ UNCHANGED <<thumbCache, thumbCacheOrder, thumbCall>>
                  ELSE /\ pathReq' = answer(200, "jpeg", probed)
                       /\ thumbCache' = set.cache
                       /\ thumbCacheOrder' = set.order
                       /\ thumbCall' = [st |-> "done", key |-> cacheKey,
                                        buf |-> [isBuffer |-> TRUE, len |-> 1],
                                        cache |-> thumbCache, order |-> thumbCacheOrder]
  /\ UNCHANGED <<boot,
               allReq,
               matches,
               disk, pending, timers, lastSignatureByRelPath, runs, watchLog,
               pool, dbUp, table, upserts, lastWrite, errOverOk, getCall, search,
                 options, dbDash, dashInput, dashboard, cmpInput, comparison, tree,
                 searchReq, analyzeReq, analyzeCall>>

sNotAnalyzedYet ==
  <<"N", "o", "t", " ", "a", "n", "a", "l", "y", "z", "e", "d", " ", "y", "e",
    "t", " ", "(", "n", "o", " ", "D", "B", " ", "e", "n", "t", "r", "y", ")">>

\* POST /api/db/analyses up to its call of getAnalysesByPaths.
DbAnalysesRequest(files) ==
  /\ NoRequestYet
  /\ LET bad == {i \in 1..Len(files) :
                   Tag(files[i]) # "str" \/ resolveWithinRoot(mediaRoot, files[i]).thrown}
         first == CHOOSE i \in bad : \A j \in bad : i <= j
         normalized == [i \in 1..Len(files) |->
                          resolveWithinRoot(mediaRoot, files[i]).relative]
         answer(body) == PathAnswered("dbAnalyses", files, 400, body, <<>>)
     IN pathReq' =
          IF pool = "null" THEN answer("DATABASE_URL not set (DB disabled)")
          ELSE IF Len(files) = 0
          THEN answer("files must be a non-empty array of relative paths")
          ELSE IF bad # {}
          THEN answer(IF Tag(files[first]) # "str" THEN "files must be an array of strings"
                      ELSE "Path escapes MEDIA_ROOT")
          ELSE [st |-> "lookup", route |-> "dbAnalyses", arg |-> files,
                normalized |-> normalized]
  /\ getCall' = Idle
  /\ UNCHANGED <<thumbCall,
               boot,
               allReq,
               matches,
               disk, pending, timers, lastSignatureByRelPath, runs, watchLog,
               pool, dbUp, table, upserts, lastWrite, errOverOk, search, options,
                 dbDash, dashInput, dashboard, cmpInput, comparison, tree, searchReq,
                 analyzeReq, analyzeCall, thumbCache, thumbCacheOrder>>

\* The answer of /api/db/analyses once getAnalysesByPaths has settled: per
\* path the stored record or {path, error: 'Not analyzed yet ...'}, and the
\* dashboard of these.
DbAnalysesRespond ==
  /\ pathReq.st = "lookup"
  /\ getCall.st \in {"done", "rejected"}
  /\ LET n == pathReq.normalized
         found(p) == {i \in 1..Len(getCall.res) :
                        Truthy(getCall.res[i].path) /\ getCall.res[i].path = Str(p)}
         last(p) == CHOOSE i \in found(p) : \A j \in found(p) : j <= i
         results == [i \in 1..Len(n) |->
                       IF found(n[i]) # {} THEN getCall.res[last(n[i])]
                       ELSE [NoRecord EXCEPT !.path = Str(n[i]),
                                             !.error = Str(sNotAnalyzedYet)]]
         touched == <<<<"store", n>>>>
     IN pathReq' =
          IF getCall.st = "rejected"
          THEN PathAnswered("dbAnalyses", pathReq.arg, 400, "message of the error", touched)
          ELSE PathAnswered("dbAnalyses", pathReq.arg, 200,
                            [results |-> results, dashboard |-> buildDashboard(results)],
                            touched)
  /\ UNCHANGED <<thumbCall,
               boot,
               allReq,
               matches,
               disk, pending, timers, lastSignatureByRelPath, runs, watchLog,
               pool, dbUp, table, upserts, lastWrite, errOverOk, getCall, search,
                 options, dbDash, dashInput, dashboard, cmpInput, comparison, tree,
                 searchReq, analyzeReq, analyzeCall, thumbCache, thumbCacheOrder>>

\* The specification of the requests that name relative paths: one request
\* of one of the four routes, made after the watcher may have stored a
\* record.
InitAnalyze ==
  /\ pool = "pool"
  /\ dbUp = TRUE
  /\ table = EmptyBag
  /\ upserts = [c \in CallSites |-> Idle]
  /\ lastWrite = [p \in Paths |-> NoRecord]
  /\ errOverOk = FALSE
  /\ getCall = Idle
  /\ search = Idle
  /\ options = Idle
  /\ dbDash = Idle
  /\ dashInput = <<>>
  /\ dashboard = Idle
  /\ cmpInput = <<>>
  /\ comparison = Idle
  /\ tree = Paths
  /\ searchReq = Idle
  /\ analyzeReq = Idle
  /\ analyzeCall = Idle
  /\ pathReq = Idle
  /\ thumbCache = {}
  /\ thumbCacheOrder = <<>>
  /\ disk = [p \in Paths |-> StatFile(1, 1)]
  /\ pending = [p \in Paths |-> 0]
  /\ timers = {}
  /\ lastSignatureByRelPath = [p \in Paths |-> <<>>]
  /\ runs = {}
  /\ watchLog = [events |-> 0, since |-> [p \in Paths |-> 0], latest |-> [p \in Paths |-> 0], bursts |-> [p \in Paths |-> <<>>], fired |-> [ev |-> 0], compared |-> [ev |-> 0], lastGood |-> [p \in Paths |-> <<>>], unseen |-> {}]
  /\ matches = Idle
  /\ allReq = Idle
  /\ boot = Idle
  /\ thumbCall = Idle

\* What the watcher has stored before the request arrives.
PriorBatches == {<<RecFilmAV>>}

\* The path and width arguments of /api/browse and /api/thumbnail.
PathArguments ==
  {Undef, Str(<<"a">>), Str(<<"a", "/", ".", ".", "/", "a">>), Str(<<"b">>), Str(PathAV),
   Str(PathMp3), Str(PathSibling), Str(PathBackslash)}

WidthArguments == {Undef, Str(<<"6", "4">>)}

NextAnalyze ==
  \/ NoRequestYet /\ \E b \in PriorBatches : UpsertStart("watcher", b)
  \/ UpsertStep("watcher")
  \/ \E files \in AnalyzeBodies : AnalyzeRequest(files)
  \/ AnalyzeStat
  \/ AnalyzeProbe
  \/ /\ analyzeReq.st = "analyzing"
     /\ analyzeCall.st = "done"
     /\ upserts["analyze"].st = "idle"
     /\ UpsertStart("analyze", analyzeCall.results)
  \/ UpsertStep("analyze")
  \/ AnalyzeRespond
  \/ \E arg \in PathArguments : BrowseRequest(arg)
  \/ \E arg \in PathArguments, w \in WidthArguments : ThumbnailRequest(arg, w)
  \/ \E files \in AnalyzeBodies : DbAnalysesRequest(files)
  \/ /\ pathReq.st = "lookup"
     /\ getCall.st = "idle"
     /\ GetByPaths([i \in 1..Len(pathReq.normalized) |-> Str(pathReq.normalized[i])])
  \/ DbAnalysesRespond

SpecAnalyze == InitAnalyze /\ [][NextAnalyze]_vars

\* The kinds of stream a probe output reports.
StreamTypes(json) ==
  LET streams == Val(Member(json, "streams"))
  IN {Val(Member(streams[i], "codec_type")) : i \in 1..Len(streams)}

\* The kind that goes with the streams present.
KindOfStreams(T) ==
  IF sVideo \in T /\ sAudio \in T THEN sVideo
  ELSE IF sVideo \in T THEN sImage
  ELSE IF sAudio \in T THEN sAudio
  ELSE sUnknown

\* The kind that goes with the extension of the paths analysed here: .ts is
\* a video extension, .mp3 an audio extension, no extension is unknown.
KindOfExtension(p) ==
  IF p = PathAV THEN sVideo ELSE IF p = PathMp3 THEN sAudio ELSE sUnknown

\* C15: the record of a file whose probe succeeded has the kind given by the
\* streams the probe reported, whatever the extension of the path; the record
\* of a file whose probe failed has the kind guessed from the extension,
\* unknown when the extension tells nothing.
C15_KindByStreams ==
  analyzeCall.st # "idle" =>
    \A i \in 1..Len(analyzeCall.results) :
      LET rec == analyzeCall.results[i]
          probe == analyzeCall.seen[i].probe
      IN /\ probe[1] = "ok" => rec.kind = Str(KindOfStreams(StreamTypes(probe[2])))
         /\ probe[1] = "fail" => rec.kind = Str(KindOfExtension(Val(rec.path)))

\* s.mp3 was analysed twice in one call: the probe failed the first time
\* (kind audio, from the extension) and reported a video stream alone the
\* second time (kind image).
C15_Witness ==
  /\ analyzeCall.st = "done"
  /\ analyzeCall.relPaths = <<PathMp3, PathMp3>>
  /\ analyzeCall.seen[1].probe[1] = "fail"
  /\ analyzeCall.results[1].kind = Str(sAudio)
  /\ analyzeCall.seen[2].probe = <<"ok", ProbeStill>>
  /\ analyzeCall.results[2].kind = Str(sImage)

\* C18: no failure of a single file rejects a call of analyzeFiles: each
\* file that fails gets an error record and the files after it are still
\* processed, so a settled call has a record for every path it was given.
C18_NoFileAbortsBatch ==
  /\ analyzeCall.st # "rejected"
  /\ analyzeCall.st = "done" => Len(analyzeCall.results) = Len(analyzeCall.relPaths)
  /\ analyzeReq.st = "done" /\ analyzeCall.st # "idle" => analyzeReq.status = 200

\* The keys of a record that hold a value.
KeysOf(rec) == {k \in RecordKeys : rec[k] # Undef}

\* C19: every error record of analyzeFiles holds path, name, kind (guessed
\* from the extension), sizeBytes, modifiedAt and error and nothing else; the
\* record of a path that is not a regular file is made without a probe and
\* its error is 'Not a file'.
C19_ErrorRecordShape ==
  analyzeCall.st # "idle" =>
    \A i \in 1..Len(analyzeCall.results) :
      LET rec == analyzeCall.results[i]
      IN /\ rec.error # Undef =>
              /\ KeysOf(rec) = {"path", "name", "kind", "sizeBytes", "modifiedAt", "error"}
              /\ rec.kind = Str(KindOfExtension(Val(rec.path)))
         /\ ~analyzeCall.seen[i].stats.isFile =>
              /\ rec.error = Str(sNotAFile)
              /\ analyzeCall.seen[i].probe = <<"none">>

\* The arguments that name a path outside the media root.
Escaping == {Str(PathSibling), Str(PathBackslash)}

\* C20: a request naming a path that resolves outside the media root is
\* answered with an error, and nothing was stat'ed, probed, listed, looked up
\* or stored for any of its paths.
C20_EscapeRejectsAll ==
  /\ (analyzeReq.st # "idle" /\ \E i \in 1..Len(analyzeReq.files) : analyzeReq.files[i] \in Escaping) =>
       /\ analyzeReq.st = "done"
       /\ analyzeReq.status = 400
       /\ analyzeCall = Idle
       /\ upserts["analyze"] = Idle
       /\ table = Where(table, {r \in DOMAIN table : r.data = RecFilmAV})
  /\ (pathReq.st # "idle" /\ pathReq.route = "dbAnalyses"
        /\ \E i \in 1..Len(pathReq.arg) : pathReq.arg[i] \in Escaping) =>
       /\ pathReq.st = "done"
       /\ pathReq.status = 400
       /\ pathReq.touched = <<>>
       /\ getCall = Idle
  /\ (pathReq.st # "idle" /\ pathReq.route \in {"browse", "thumbnail"}
        /\ pathReq.arg \in Escaping) =>
       /\ pathReq.st = "done"
       /\ pathReq.status \in {400, 500}
       /\ pathReq.touched = <<>>
       /\ thumbCache = {}

\* /api/analyze was asked for a/v.ts and for a path in the sibling directory
\* media2: it answered 400 and a/v.ts was neither stat'ed nor probed.
C20_Witness ==
  /\ analyzeReq.st = "done"
  /\ analyzeReq.files = <<Str(PathAV), Str(PathSibling)>>
  /\ analyzeReq.status = 400
  /\ analyzeCall = Idle

-----------------------------------------------------------------------------
(* server.js: startMediaWatcher *)

\* process.env.WATCH_DEBOUNCE_MS, here 2 (units of the clock of the model).
WATCH_DEBOUNCE_MS == 2

\* delayMs: the configured delay when it is a number >= 0, else 2000.
delayMs == IF WATCH_DEBOUNCE_MS >= 0 THEN WATCH_DEBOUNCE_MS ELSE 2000

\* Most add/change events the file watcher emits in one behaviour.
MaxEvents == 2

\* Latest modification time a file gets.
MaxMtime == 2

\* The paths chokidar reports events for, and those whose file changes.
EventPaths == {PathAV, PathAW}
ChangingPaths == {PathAV}

\* clearTimeout that cancels nothing.
clearNothing(T, id) == T

\* clearTimeout(id): the timer with that id will not run.
clearTimeout(T, id) == {t \in T : t.id # id}

\* No timer has expired without its callback having been started: the event
\* loop runs expired timers before it takes an event or lets time pass.
NoTimerDue == \A t \in timers : t.due > 0

\* What the file of a path can become: a write gives it a later mtime, the
\* file can be removed, and a path without a file gets a new one.  (chokidar
\* reports add and change for files, addDir for directories.)
FileChanges(st) ==
  IF st = StatGone THEN {StatFile(1, MaxMtime)}
  ELSE IF ~st.isFile THEN {StatGone}
  ELSE {StatGone} \cup {StatFile(st.size, m) : m \in (st.mtime + 1)..MaxMtime}

\* The file of path p changes.  The history notes the path as changed since
\* the last event for it.
FileChange(p) ==
  /\ \E st \in FileChanges(disk[p]) :
       /\ disk' = [disk EXCEPT ![p] = st]
       /\ tree' = IF st # StatGone /\ st.isFile THEN tree \cup {p} ELSE tree \ {p}
  /\ watchLog' = [watchLog EXCEPT !.unseen = @ \cup {p}]
  /\ UNCHANGED <<thumbCall,
               boot,
               allReq,
               matches,
               pending, timers, lastSignatureByRelPath, runs,
                 pool, dbUp, table, upserts, lastWrite, errOverOk, getCall, search,
                 options, dbDash, dashInput, dashboard, cmpInput, comparison,
                 searchReq, analyzeReq, analyzeCall, pathReq, thumbCache,
                 thumbCacheOrder>>

\* One unit of time passes: every timer is one unit nearer to its expiry.
Tick ==
  /\ NoTimerDue
  /\ timers' = {[t EXCEPT !.due = t.due - 1] : t \in timers}
  /\ watchLog' = [watchLog EXCEPT
                    !.since = [p \in Paths |->
                                 IF p \in EventPaths
                                 THEN Min(watchLog.since[p] + 1, delayMs)
                                 ELSE watchLog.since[p]]]
  /\ UNCHANGED <<thumbCall,
               boot,
               allReq,
               matches,
               disk, pending, lastSignatureByRelPath, runs,
                 pool, dbUp, table, upserts, lastWrite, errOverOk, getCall, search,
                 options, dbDash, dashInput, dashboard, cmpInput, comparison, tree,
                 searchReq, analyzeReq, analyzeCall, pathReq, thumbCache,
                 thumbCacheOrder>>

\* schedule(absPath), the handler of the add and change events, for the file
\* of relative path p: the pending timer of the path is cleared and a new
\* one is set and put in the map.  The timer gets the number of the event
\* as its id.  The history opens a new burst for the path when the event
\* comes delayMs or more after the previous one, and counts the event into
\* the current burst otherwise.
schedule(p) ==
  /\ NoTimerDue
  /\ watchLog.events < MaxEvents
  /\ LET id == watchLog.events + 1
         prev == pending[p]
         kept == IF prev # 0 THEN clearTimeout(timers, prev) ELSE timers
         B == watchLog.bursts[p]
         opens == B = <<>> \/ watchLog.since[p] >= delayMs
         B2 == IF opens THEN Append(B, [events |-> 1, callbacks |-> 0, analyses |-> 0])
               ELSE [B EXCEPT ![Len(B)].events = @ + 1]
     IN /\ timers' = kept \cup {[id |-> id, path |-> p, due |-> delayMs,
                                  burst |-> Len(B2)]}
        /\ pending' = [pending EXCEPT ![p] = id]
        /\ watchLog' = [watchLog EXCEPT !.events = id,
                                        !.since = [@ EXCEPT ![p] = 0],
                                        !.latest = [@ EXCEPT ![p] = id],
                                        !.bursts = [@ EXCEPT ![p] = B2],
                                        !.unseen = @ \ {p}]
  /\ UNCHANGED <<thumbCall,
               boot,
               allReq,
               matches,
               disk, lastSignatureByRelPath, runs,
                 pool, dbUp, table, upserts, lastWrite, errOverOk, getCall, search,
                 options, dbDash, dashInput, dashboard, cmpInput, comparison, tree,
                 searchReq, analyzeReq, analyzeCall, pathReq, thumbCache,
                 thumbCacheOrder>>

\* The callback of an expired timer up to its await of fs.stat: the path
\* leaves the map, the relative path is resolved within the root.  The
\* history keeps the timer as the latest one run, and counts the callback
\* for its burst.
TimerFire ==
  \E t \in timers :
    /\ t.due = 0
    /\ timers' = timers \ {t}
    /\ pending' = [pending EXCEPT ![t.path] = 0]
    /\ LET resolved == resolveWithinRoot(mediaRoot, Str(t.path))
       IN runs' = IF resolved.thrown THEN runs
                  ELSE runs \cup {[ev |-> t.id, path |-> resolved.relative,
                                   burst |-> t.burst, at |-> "stat", sig |-> <<>>,
                                   stats |-> StatGone, record |-> NoRecord]}
    /\ watchLog' = [watchLog EXCEPT
                      !.fired = [ev |-> t.id, path |-> t.path,
                                 since |-> watchLog.since[t.path],
                                 latest |-> watchLog.latest[t.path]],
                      !.bursts = [@ EXCEPT ![t.path][t.burst].callbacks = @ + 1]]
    /\ UNCHANGED <<thumbCall, boot,
               allReq, matches, disk, lastSignatureByRelPath,
                   pool, dbUp, table, upserts, lastWrite, errOverOk, getCall, search,
                   options, dbDash, dashInput, dashboard, cmpInput, comparison, tree,
                   searchReq, analyzeReq, analyzeCall, pathReq, thumbCache,
                   thumbCacheOrder>>

\* A test that also holds while /api/analyze-all is at work.
SameOrAnalyzeAll(prev, sig) ==
  \/ prev # <<>> /\ prev[1] = sig[1] /\ prev[2] = sig[2]
  \/ allReq.st = "run"

\* prev && prev.mtimeMs === sig.mtimeMs && prev.size === sig.size
SameSignature(prev, sig) == prev # <<>> /\ prev[1] = sig[1] /\ prev[2] = sig[2]

\* The callback from the answer of fs.stat to the call of analyzeFiles: a
\* rejected stat is logged, a path that is not a file and a file with the
\* signature of the map end the callback; else the signature is put in the
\* map and analyzeFiles is called.  The history keeps this comparison as
\* the latest one, and counts the call for the burst of the timer.
WatchStat ==
  \E r \in runs :
    /\ r.at = "stat"
    /\ LET st == disk[r.path]
           isFile == st # StatGone /\ st.isFile
           sig == IF isFile THEN <<st.mtime, st.size>> ELSE <<>>
           prev == lastSignatureByRelPath[r.path]
           same == SameSignature(prev, sig)
           go == isFile /\ ~same
       IN /\ runs' = IF go
                     THEN (runs \ {r}) \cup {[r EXCEPT !.at = "analyze", !.sig = sig]}
                     ELSE runs \ {r}
          /\ lastSignatureByRelPath' =
               IF go THEN [lastSignatureByRelPath EXCEPT ![r.path] = sig]
               ELSE lastSignatureByRelPath
          /\ watchLog' =
               [watchLog EXCEPT
                  !.compared = [ev |-> r.ev, path |-> r.path, found |-> st,
                                known |-> prev, good |-> watchLog.lastGood[r.path],
                                called |-> go],
                  !.bursts = [@ EXCEPT ![r.path][r.burst].analyses =
                                          IF go THEN @ + 1 ELSE @]]
    /\ UNCHANGED <<thumbCall, boot,
               allReq, matches, disk, pending, timers,
                   pool, dbUp, table, upserts, lastWrite, errOverOk, getCall, search,
                   options, dbDash, dashInput, dashboard, cmpInput, comparison, tree,
                   searchReq, analyzeReq, analyzeCall, pathReq, thumbCache,
                   thumbCacheOrder>>

\* analyzeFiles(mediaRoot, [relative]) up to the answer of its fs.stat: a
\* rejected stat rejects the call, which the callback logs; a path that is
\* not a file gets its record; a file is probed next.
WatchAnalyzeStat ==
  \E r \in runs :
    /\ r.at = "analyze"
    /\ LET st == disk[r.path]
       IN runs' = IF st = StatGone THEN runs \ {r}
                  ELSE IF ~st.isFile
                  THEN (runs \ {r}) \cup
                         {[r EXCEPT !.at = "upsert", !.stats = st,
                                    !.record = NotAFileRecord(r.path)]}
                  ELSE (runs \ {r}) \cup {[r EXCEPT !.at = "probe", !.stats = st]}
    /\ UNCHANGED <<thumbCall, boot,
               allReq, matches, disk, pending, timers, lastSignatureByRelPath, watchLog,
                   pool, dbUp, table, upserts, lastWrite, errOverOk, getCall, search,
                   options, dbDash, dashInput, dashboard, cmpInput, comparison, tree,
                   searchReq, analyzeReq, analyzeCall, pathReq, thumbCache,
                   thumbCacheOrder>>

\* How the probe of a watched file can settle.
WatchProbes == {<<"ok", ProbeFilm>>, <<"fail", Str(sProbeExit)>>}

\* The rest of analyzeFiles: the probe settles and the call returns the
\* record of the file, which the callback hands to upsertAnalyses.
WatchProbe ==
  \E r \in runs :
    /\ r.at = "probe"
    /\ \E probe \in WatchProbes :
         runs' = (runs \ {r}) \cup
                   {[r EXCEPT !.at = "upsert",
                              !.record = AnalyzeOne(r.path, r.stats, probe)]}
    /\ UNCHANGED <<thumbCall, boot,
               allReq, matches, disk, pending, timers, lastSignatureByRelPath, watchLog,
                   pool, dbUp, table, upserts, lastWrite, errOverOk, getCall, search,
                   options, dbDash, dashInput, dashboard, cmpInput, comparison, tree,
                   searchReq, analyzeReq, analyzeCall, pathReq, thumbCache,
                   thumbCacheOrder>>

\* upsertAnalyses(dbPool, results) for the one record of the callback, and
\* the end of the callback.  The history notes the signature of a run that
\* stored the record of a successful probe.
WatchUpsert ==
  \E r \in runs :
    /\ r.at = "upsert"
    /\ runs' = runs \ {r}
    /\ LET rows == UpsertRows(<<r.record>>)
           a == r.record
       IN IF pool = "null" \/ Len(rows) = 0
          THEN UNCHANGED <<table, lastWrite, errOverOk>>
          ELSE /\ table' = UpsertRow(table, a)
               /\ lastWrite' = [lastWrite EXCEPT ![Val(a.path)] = a]
               /\ errOverOk' = (/\ a.error # Undef
                                /\ \E row \in DOMAIN table :
                                     row.path = a.path /\ row.data.error = Undef)
    /\ watchLog' = IF r.record.error = Undef
                   THEN [watchLog EXCEPT !.lastGood = [@ EXCEPT ![r.path] = r.sig]]
                   ELSE watchLog
    /\ UNCHANGED <<thumbCall, boot,
               allReq, matches, disk, pending, timers, lastSignatureByRelPath,
                   pool, dbUp, upserts, getCall, search,
                   options, dbDash, dashInput, dashboard, cmpInput, comparison, tree,
                   searchReq, analyzeReq, analyzeCall, pathReq, thumbCache,
                   thumbCacheOrder>>

InitWatcher ==
  /\ pool = "pool"
  /\ dbUp = TRUE
  /\ table = EmptyBag
  /\ upserts = [c \in CallSites |-> Idle]
  /\ lastWrite = [p \in Paths |-> NoRecord]
  /\ errOverOk = FALSE
  /\ getCall = Idle
  /\ search = Idle
  /\ options = Idle
  /\ dbDash = Idle
  /\ dashInput = <<>>
  /\ dashboard = Idle
  /\ cmpInput = <<>>
  /\ comparison = Idle
  /\ tree = Paths
  /\ searchReq = Idle
  /\ analyzeReq = Idle
  /\ analyzeCall = Idle
  /\ pathReq = Idle
  /\ thumbCache = {}
  /\ thumbCacheOrder = <<>>
  /\ disk = [p \in Paths |-> StatFile(1, 1)]
  /\ pending = [p \in Paths |-> 0]
  /\ timers = {}
  /\ lastSignatureByRelPath = [p \in Paths |-> <<>>]
  /\ runs = {}
  /\ watchLog = [events |-> 0, since |-> [p \in Paths |-> 0],
                 latest |-> [p \in Paths |-> 0],
                 bursts |-> [p \in Paths |-> <<>>], fired |-> [ev |-> 0],
                 compared |-> [ev |-> 0], lastGood |-> [p \in Paths |-> <<>>], unseen |-> {}]
  /\ matches = Idle
  /\ allReq = Idle
  /\ boot = Idle
  /\ thumbCall = Idle

NextWatcher ==
  \/ \E p \in ChangingPaths : FileChange(p)
  \/ Tick
  \/ \E p \in EventPaths : schedule(p)
  \/ TimerFire
  \/ WatchStat
  \/ WatchAnalyzeStat
  \/ WatchProbe
  \/ WatchUpsert

SpecWatcher == InitWatcher /\ [][NextWatcher]_vars

\* Burst b of path p is over and decided: no event can join it any more,
\* its timer is not pending and no callback of it still awaits fs.stat.
BurstDecided(p, b) ==
  /\ b < Len(watchLog.bursts[p]) \/ watchLog.since[p] >= delayMs
  /\ ~\E t \in timers : t.path = p /\ t.burst = b
  /\ ~\E r \in runs : r.path = p /\ r.burst = b /\ r.at = "stat"

\* The timers pending for path p.
TimersOf(p) == {t \in timers : t.path = p}

\* Timers run late enough and one at a time: a path has at most one
\* pending timer, which is the one of its map entry, and the latest timer
\* run was the one of the last event of its path, run delayMs after it.
DebouncedTimers ==
  /\ \A p \in Paths :
       /\ Cardinality(TimersOf(p)) <= 1
       /\ \A t \in TimersOf(p) : pending[p] = t.id
  /\ watchLog.fired.ev # 0 =>
       /\ watchLog.fired.since >= delayMs
       /\ watchLog.fired.ev = watchLog.fired.latest

\* C16 as stated: every burst of add/change events for one path, each event
\* less than the debounce delay after the previous one, triggers exactly one
\* reanalysis of the path, started only once the delay has elapsed after the
\* last event of the burst, and a path never has more than one pending timer.
C16_OneReanalysisPerBurst ==
  /\ DebouncedTimers
  /\ \A p \in Paths : \A b \in 1..Len(watchLog.bursts[p]) :
       /\ watchLog.bursts[p][b].analyses <= 1
       /\ BurstDecided(p, b) => watchLog.bursts[p][b].analyses = 1

\* C16 amended: every burst makes exactly one timer callback run, only once
\* the delay has elapsed after its last event, and a path never has more than
\* one pending timer; the callback starts at most one reanalysis, and starts
\* it exactly when fs.stat shows a regular file whose (mtime, size) is not
\* the signature recorded for the path.
C16_OneCallbackPerBurst ==
  /\ DebouncedTimers
  /\ \A p \in Paths : \A b \in 1..Len(watchLog.bursts[p]) :
       LET B == watchLog.bursts[p][b]
       IN /\ B.callbacks <= 1
          /\ B.analyses <= B.callbacks
          /\ BurstDecided(p, b) => B.callbacks = 1
  /\ LET c == watchLog.compared
     IN c.ev # 0 =>
          (c.called <=> /\ c.found # StatGone
                        /\ c.found.isFile
                        /\ c.known # <<c.found.mtime, c.found.size>>)

\* A burst of two events for one path is decided: one callback ran and it
\* started one reanalysis.
C16_Witness ==
  \E p \in Paths : \E b \in 1..Len(watchLog.bursts[p]) :
    /\ watchLog.bursts[p][b].events = 2
    /\ BurstDecided(p, b)
    /\ watchLog.bursts[p][b].callbacks = 1
    /\ watchLog.bursts[p][b].analyses = 1

\* C17: when the timer of a path has fired and the path is a regular file,
\* the watcher skips the reanalysis if and only if the (mtime, size) of the
\* file is the signature of the last successful reanalysis of the path; in
\* particular a file whose previous reanalysis failed is reanalysed.
C17_SkipIffUnchangedSinceSuccess ==
  LET c == watchLog.compared
  IN (c.ev # 0 /\ c.found # StatGone /\ c.found.isFile) =>
       (~c.called <=> c.good = <<c.found.mtime, c.found.size>>)

-----------------------------------------------------------------------------
(* compare.js: compareAnalyses for any list of records *)

\* Longest list of records given to /api/compare.
MaxCompare == 3

\* The records compared: ok records of a film, a sound and a still, of a
\* video stream that reports no codec, of a container with a blank format
\* name, and the error records of a failed probe and of a directory, each as
\* the JSON body of the request carries it.
CompareRecords ==
  {JsonRecord(a) :
     a \in {RecFilmAV, RecSoundAW, RecStillAW, RecErrAV, RecDirSV,
            normalizeAnalysis(PathAW, StatFile(1, 1),
                              Obj([format |-> Obj([format_name |-> Str(<<>>)]),
                                   streams |-> Arr(<<BareStream(sVideo)>>)])),
            normalizeAnalysis(PathSV, StatFile(1, 1),
                              Obj([format |-> Obj([format_name |-> Str(sMpegts)]),
                                   streams |-> Arr(<<BareStream(sVideo), AudioStream>>)]))}}

CompareAnyLists ==
  {s \in SeqsUpTo(CompareRecords, MaxCompare) : Len(s) >= 2}

InitCompareAny ==
  /\ pool = "pool"
  /\ dbUp = TRUE
  /\ table = EmptyBag
  /\ upserts = [c \in CallSites |-> Idle]
  /\ lastWrite = [p \in Paths |-> NoRecord]
  /\ errOverOk = FALSE
  /\ getCall = Idle
  /\ search = Idle
  /\ options = Idle
  /\ dbDash = Idle
  /\ dashInput = <<>>
  /\ dashboard = Idle
  /\ cmpInput \in CompareAnyLists
  /\ comparison = Idle
  /\ tree = Paths
  /\ searchReq = Idle
  /\ analyzeReq = Idle
  /\ analyzeCall = Idle
  /\ pathReq = Idle
  /\ thumbCache = {}
  /\ thumbCacheOrder = <<>>
  /\ disk = [p \in Paths |-> StatFile(1, 1)]
  /\ pending = [p \in Paths |-> 0]
  /\ timers = {}
  /\ lastSignatureByRelPath = [p \in Paths |-> <<>>]
  /\ runs = {}
  /\ watchLog = [events |-> 0, since |-> [p \in Paths |-> 0], latest |-> [p \in Paths |-> 0], bursts |-> [p \in Paths |-> <<>>], fired |-> [ev |-> 0], compared |-> [ev |-> 0], lastGood |-> [p \in Paths |-> <<>>], unseen |-> {}]
  /\ matches = Idle
  /\ allReq = Idle
  /\ boot = Idle
  /\ thumbCall = Idle

SpecCompareAny == InitCompareAny /\ [][NextCompare]_vars

\* The value record a holds in field f, with absent, undefined and '' as
\* null.
FieldValue(a, f) ==
  LET v == IF Len(f) = 1 THEN a[f[1]] ELSE Get2(a, f[1], f[2])
  IN IF v = Undef \/ v = Str(<<>>) THEN Null ELSE v

\* C26: for a list of two or more records every comparison field stands in
\* exactly one of similarities and differences: in similarities, with the
\* common value, exactly when the values of all records are equal once
\* undefined and '' are taken as null, else in differences as the list of
\* {path, value}, one entry per record in input order.
C26_EachFieldOnce ==
  comparison.st = "done" =>
    LET out == comparison.out
        n == Len(cmpInput)
    IN /\ DOMAIN out.similarities \cup DOMAIN out.differences = FieldSet
       /\ DOMAIN out.similarities \cap DOMAIN out.differences = {}
       /\ \A f \in FieldSet :
            LET same == \A i \in 1..n : FieldValue(cmpInput[i], f) = FieldValue(cmpInput[1], f)
            IN /\ f \in DOMAIN out.similarities <=> same
               /\ same => out.similarities[f] = FieldValue(cmpInput[1], f)
               /\ ~same =>
                    out.differences[f] =
                      [i \in 1..n |->
                         [path |-> IF cmpInput[i].path = Undef THEN Null ELSE cmpInput[i].path,
                          value |-> FieldValue(cmpInput[i], f)]]

\* Three records were compared, one without a video object and one whose
\* video.codec is null: video.codec stands under similarities as null,
\* and kind under differences with three entries.
C26_Witness ==
  /\ comparison.st = "done"
  /\ Len(cmpInput) = 3
  /\ \E i, j \in 1..3 :
       /\ cmpInput[i].video = Undef
       /\ Tag(cmpInput[j].video) = "obj"
  /\ <<"video", "codec">> \in DOMAIN comparison.out.similarities
  /\ comparison.out.similarities[<<"video", "codec">>] = Null
  /\ <<"kind">> \in DOMAIN comparison.out.differences
  /\ Len(comparison.out.differences[<<"kind">>]) = 3

-----------------------------------------------------------------------------
(* db.js: the filters of searchAnalysesPaged, one by one *)

\* Calls of searchAnalysesPaged as /api/search makes them with a metadata
\* filter: each filter alone with a value some record has, a name with the
\* characters _ and %, and resolutions that are not of the form WxH or
\* that no record has.
FilterQueries ==
  {[f |-> f, scopePrefix |-> Str(<<>>), limit |-> Num(2), offset |-> Num(0)] :
     f \in {[NoFilters EXCEPT !.kind = Str(sAudio)],
            [NoFilters EXCEPT !.container = Str(sMpegts)],
            [NoFilters EXCEPT !.videoCodec = Str(sH264)],
            [NoFilters EXCEPT !.audioCodec = Str(sAac), !.name = Str(<<"W", ".", "t">>)],
            [NoFilters EXCEPT !.kind = Str(sVideo), !.name = Str(<<"a", "_", "v">>)],
            [NoFilters EXCEPT !.kind = Str(sVideo), !.name = Str(<<"a", "%", "s">>)],
            [NoFilters EXCEPT !.resolution = Str(<<"2", "x", "1">>)],
            [NoFilters EXCEPT !.resolution = Str(<<"9", "x", "9">>)],
            [NoFilters EXCEPT !.resolution = Str(<<"h", "d">>)]}}

NextFilter ==
  \/ \E b \in SearchBatches : UpsertStart("watcher", b)
  \/ UpsertStep("watcher")
  \/ \E q \in FilterQueries : SearchCount(q)
  \/ SearchList

SpecFilter == Init /\ [][NextFilter]_vars

\* The "WxH" string of record a, <<>> when it has no width or no height.
ResolutionOf(a) ==
  LET w == Get2(a, "video", "width")
      h == Get2(a, "video", "height")
  IN IF Tag(w) = "num" /\ Tag(h) = "num"
     THEN ToText(Val(w)) \o <<"x">> \o ToText(Val(h))
     ELSE <<>>

\* Record a satisfies every filter of f that is supplied (is not '').
Satisfies(a, f) ==
  /\ f.kind # Str(<<>>) => a.kind = f.kind
  /\ f.container # Str(<<>>) => Get2(a, "container", "formatName") = f.container
  /\ f.videoCodec # Str(<<>>) => Get2(a, "video", "codec") = f.videoCodec
  /\ f.audioCodec # Str(<<>>) => Get2(a, "audio", "codec") = f.audioCodec
  /\ f.resolution # Str(<<>>) => ResolutionOf(a) = Val(f.resolution)
  /\ f.name # Str(<<>>) => OccursIn(Val(f.name), Val(a.path))

\* C24: every item searchAnalysesPaged returns satisfies every supplied
\* filter: kind, container, videoCodec and audioCodec by equality, resolution
\* by equality with the "WxH" string of the record, name as a literal
\* substring of the path whatever the case of letters; so a value that no
\* record has yields no item.
C24_ItemsSatisfyFilters ==
  search.st = "done" =>
    \A i \in 1..Len(search.items) : Satisfies(search.items[i], search.q.f)

-----------------------------------------------------------------------------
(* db.js: getDashboardMatchesPaged and the scope prefix of the three queries *)

kStatus == <<"s", "t", "a", "t", "u", "s">>
kKind == <<"k", "i", "n", "d">>
kContainerFormat == <<"c", "o", "n", "t", "a", "i", "n", "e", "r", "F", "o", "r", "m", "a", "t">>
kVideoCodec == <<"v", "i", "d", "e", "o", "C", "o", "d", "e", "c">>
kAudioCodec == <<"a", "u", "d", "i", "o", "C", "o", "d", "e", "c">>
kPixelFormat == <<"p", "i", "x", "e", "l", "F", "o", "r", "m", "a", "t">>
kFrameRate == <<"f", "r", "a", "m", "e", "R", "a", "t", "e">>
kAudioSampleRate == <<"a", "u", "d", "i", "o", "S", "a", "m", "p", "l", "e", "R", "a", "t", "e">>
kAudioChannels == <<"a", "u", "d", "i", "o", "C", "h", "a", "n", "n", "e", "l", "s">>
kResolution == <<"r", "e", "s", "o", "l", "u", "t", "i", "o", "n">>
sOk == <<"o", "k">>
sError == <<"e", "r", "r", "o", "r">>

\* The WHERE clause getDashboardMatchesPaged builds from match m (an object
\* {key, value, status}) and scopePrefix, evaluated on row r.
MatchWhere(m, scopePrefix, r) ==
  LET key == Trim(StringOr(m.key))
      value == StringOr(m.value)
      status == Trim(StringOr(m.status))
      prefix == Trim(StringOr(scopePrefix))
      applyStatus(s) == CASE s = sOk -> ~HasError(r)
                          [] s = sError -> HasError(r)
                          [] OTHER -> TRUE
      addEq(col, val) == Len(val) = 0 \/ col = Str(val)
      mm == ParseResolution(value)
  IN /\ Len(prefix) > 0 => Like(Val(r.path), escapeLikePrefix(prefix) \o <<"%">>)
     /\ IF Len(status) > 0 THEN applyStatus(status)
        ELSE (Len(key) > 0 /\ key # kStatus /\ key # sAll) => ~HasError(r)
     /\ CASE key = sAll -> TRUE
          [] key = kStatus -> applyStatus(value)
          [] key = kKind -> addEq(r.kind, value)
          [] key = kContainerFormat -> addEq(r.container_format, value)
          [] key = kVideoCodec -> addEq(r.video_codec, value)
          [] key = kAudioCodec -> addEq(r.audio_codec, value)
          [] key = kPixelFormat -> addEq(JsonText(r, "video", "pixelFormat"), value)
          [] key = kFrameRate -> addEq(JsonText(r, "video", "frameRate"), value)
          [] key = kAudioSampleRate -> addEq(JsonText(r, "audio", "sampleRate"), value)
          [] key = kAudioChannels -> addEq(JsonText(r, "audio", "channels"), value)
          [] key = kResolution ->
               mm # <<>> => (r.width = Num(mm[1]) /\ r.height = Num(mm[2]))
          [] OTHER -> TRUE

\* SELECT COUNT(*) of getDashboardMatchesPaged.
MatchTotal(t, m, scopePrefix) ==
  BagSize(Where(t, {r \in DOMAIN t : MatchWhere(m, scopePrefix, r)}))

\* SELECT data ... ORDER BY path LIMIT safeLimit OFFSET safeOffset.
MatchItemsOf(t, m, scopePrefix, limit, offset) ==
  LET rows == LimitOffset(OrderByPath(Where(t, {r \in DOMAIN t : MatchWhere(m, scopePrefix, r)})),
                          SafeLimit(limit), SafeOffset(offset))
  IN [i \in 1..Len(rows) |-> rows[i].data]

\* getDashboardMatchesPaged up to the answer to its count query.
MatchCount(q) ==
  /\ matches.st # "counted"
  /\ matches' =
       IF pool = "null"
       THEN [st |-> "done", q |-> q, items |-> <<>>, total |-> 0,
             limit |-> 0, offset |-> 0]
       ELSE IF dbUp
       THEN [st |-> "counted", q |-> q,
             total |-> MatchTotal(table, q.m, q.scopePrefix)]
       ELSE [st |-> "rejected", q |-> q]
  /\ UNCHANGED <<thumbCall,
               boot,
               allReq,
               disk, pending, timers, lastSignatureByRelPath, runs, watchLog,
                 pathReq, thumbCache, thumbCacheOrder, analyzeReq, analyzeCall,
                 tree, searchReq, cmpInput, comparison, pool, dbUp, table,
                 upserts, lastWrite, errOverOk, getCall, search, options,
                 dbDash, dashInput, dashboard>>

\* The rest of getDashboardMatchesPaged: the items query and the return of
\* {items, total, limit, offset}.
MatchList ==
  /\ matches.st = "counted"
  /\ matches' =
       IF dbUp
       THEN [st |-> "done", q |-> matches.q,
             items |-> MatchItemsOf(table, matches.q.m, matches.q.scopePrefix,
                                    matches.q.limit, matches.q.offset),
             total |-> matches.total,
             limit |-> SafeLimit(matches.q.limit),
             offset |-> SafeOffset(matches.q.offset)]
       ELSE [st |-> "rejected", q |-> matches.q]
  /\ UNCHANGED <<thumbCall,
               boot,
               allReq,
               disk, pending, timers, lastSignatureByRelPath, runs, watchLog,
                 pathReq, thumbCache, thumbCacheOrder, analyzeReq, analyzeCall,
                 tree, searchReq, cmpInput, comparison, pool, dbUp, table,
                 upserts, lastWrite, errOverOk, getCall, search, options,
                 dbDash, dashInput, dashboard>>

PathABV == <<"a", "b", "/", "v", ".", "t", "s">>
PathUV == <<"_", "/", "v", ".", "t", "s">>
PathPV == <<"%", "b", "/", "v", ".", "t", "s">>

\* The files of the library of the scope queries: a/v.ts, ' a/v.ts' in a
\* directory whose name starts with a blank, ab/v.ts in a sibling of a, and
\* files in directories named _ and %b.
ScopePaths == {PathAV, PathSV, PathABV, PathUV, PathPV}

\* Each of them analysed as a film; a/v.ts also after a failed probe.
ScopeRecords ==
  {AnalyzeOne(p, StatFile(1, 1), <<"ok", ProbeFilm>>) : p \in ScopePaths} \cup {RecErrAV}

ScopeBatches == {<<r>> : r \in ScopeRecords}

\* Scope prefixes: none, the directories a, ' a', _ and ab followed by a
\* slash as the routes build them, and the bare texts a, % and backslash.
ScopePrefixes ==
  {Str(<<>>), Str(<<"a", "/">>), Str(<<" ", "a", "/">>), Str(<<"_", "/">>),
   Str(<<"a", "b", "/">>), Str(<<"a">>), Str(<<"%">>), Str(<<"\\">>)}

\* The calls of searchAnalysesPaged: kind video under each prefix.
ScopeSearches ==
  {[f |-> [NoFilters EXCEPT !.kind = Str(sVideo)], scopePrefix |-> x,
    limit |-> Num(2), offset |-> Num(0)] : x \in ScopePrefixes}

\* The calls of getDashboardMatchesPaged: every record (key all) under each
\* prefix.
ScopeMatches ==
  {[m |-> [key |-> Str(sAll), value |-> Str(<<>>), status |-> Str(<<>>)],
    scopePrefix |-> x, limit |-> Num(2), offset |-> Num(0)] : x \in ScopePrefixes}

\* No query has been issued yet.
NoQueryYet == search = Idle /\ matches = Idle /\ dbDash = Idle

InitScope ==
  /\ pool = "pool"
  /\ dbUp = TRUE
  /\ table = EmptyBag
  /\ upserts = [c \in CallSites |-> Idle]
  /\ lastWrite = [p \in Paths \cup ScopePaths |-> NoRecord]
  /\ errOverOk = FALSE
  /\ getCall = Idle
  /\ search = Idle
  /\ options = Idle
  /\ dbDash = Idle
  /\ dashInput = <<>>
  /\ dashboard = Idle
  /\ cmpInput = <<>>
  /\ comparison = Idle
  /\ tree = Paths
  /\ searchReq = Idle
  /\ analyzeReq = Idle
  /\ analyzeCall = Idle
  /\ pathReq = Idle
  /\ thumbCache = {}
  /\ thumbCacheOrder = <<>>
  /\ disk = [p \in Paths |-> StatFile(1, 1)]
  /\ pending = [p \in Paths |-> 0]
  /\ timers = {}
  /\ lastSignatureByRelPath = [p \in Paths |-> <<>>]
  /\ runs = {}
  /\ watchLog = [events |-> 0, since |-> [p \in Paths |-> 0], latest |-> [p \in Paths |-> 0], bursts |-> [p \in Paths |-> <<>>], fired |-> [ev |-> 0], compared |-> [ev |-> 0], lastGood |-> [p \in Paths |-> <<>>], unseen |-> {}]
  /\ matches = Idle
  /\ allReq = Idle
  /\ boot = Idle
  /\ thumbCall = Idle

\* The watcher fills the store; then one of the three functions is called
\* with a scope prefix.
NextScope ==
  \/ NoQueryYet /\ \E b \in ScopeBatches : UpsertStart("watcher", b)
  \/ NoQueryYet /\ UpsertStep("watcher")
  \/ upserts["watcher"].st # "run" /\ matches = Idle /\ dbDash = Idle
       /\ \E q \in ScopeSearches : SearchCount(q)
  \/ SearchList
  \/ upserts["watcher"].st # "run" /\ search = Idle /\ dbDash = Idle
       /\ \E q \in ScopeMatches : MatchCount(q)
  \/ MatchList
  \/ upserts["watcher"].st # "run" /\ search = Idle /\ matches = Idle
       /\ \E x \in ScopePrefixes : DashStart(x)
  \/ DashQuery

SpecScope == InitScope /\ [][NextScope]_vars

\* The rows of t whose path starts with prefix, character for character.
UnderPrefix(t, prefix) == Where(t, {r \in DOMAIN t : StartsWith(Val(r.path), prefix)})

\* The scope of a finished call of one of the three functions is literal:
\* what it returns covers exactly the rows whose path starts with prefix.
ScopeIsLiteral(prefix) ==
  /\ search.st = "done" =>
       /\ search.total =
            BagSize(Where(UnderPrefix(table, prefix),
                          {r \in DOMAIN table : SearchWhere(search.q.f, Str(<<>>), r)}))
       /\ \A i \in 1..Len(search.items) : StartsWith(Val(search.items[i].path), prefix)
  /\ matches.st = "done" =>
       /\ matches.total = BagSize(UnderPrefix(table, prefix))
       /\ \A i \in 1..Len(matches.items) : StartsWith(Val(matches.items[i].path), prefix)
  /\ dbDash.st = "done" =>
       /\ dbDash.out.totals.analyzedOkCount = Cardinality(OkInScope(table, prefix))
       /\ dbDash.out.totals.analyzedErrorCount = Cardinality(ErrInScope(table, prefix))

\* The prefix of the call that has finished.
CalledPrefix ==
  IF search.st = "done" THEN Val(search.q.scopePrefix)
  ELSE IF matches.st = "done" THEN Val(matches.q.scopePrefix)
  ELSE IF dbDash.st = "done" THEN Val(dbDash.scopePrefix)
  ELSE <<>>

\* C28: for every scope prefix and every stored path the record is in scope
\* of searchAnalysesPaged, getDashboardFromDb and getDashboardMatchesPaged
\* if and only if the path starts with the prefix character for character:
\* %, _ and backslash stand for themselves, and the prefix a/ leaves out the
\* sibling ab.
C28_LiteralPrefix == ScopeIsLiteral(CalledPrefix)

-----------------------------------------------------------------------------
(* db.js getDashboardFromDb beside dashboard.js buildDashboard *)

\* The records stored in t under a path that starts with prefix, as a list in
\* path order.
RecordsUnder(t, prefix) ==
  LET rows == OrderByPath(UnderPrefix(t, prefix))
  IN [i \in 1..Len(rows) |-> rows[i].data]

\* The dimensions both getDashboardFromDb and buildDashboard count.
SharedDimensions == {"kind", "containerFormat", "videoCodec", "audioCodec", "resolution"}

\* Dashboards a and b have the same totals (selectedCount aside) and the
\* same {key, count} lists, in the same order, in the shared dimensions.
SameDashboard(a, b) ==
  /\ a.totals.analyzedOkCount = b.totals.analyzedOkCount
  /\ a.totals.analyzedErrorCount = b.totals.analyzedErrorCount
  /\ a.totals.totalSizeBytes = b.totals.totalSizeBytes
  /\ a.totals.totalDurationSec = b.totals.totalDurationSec
  /\ a.totals.bitRate = b.totals.bitRate
  /\ a.totals.durationSec = b.totals.durationSec
  /\ \A d \in SharedDimensions : a.counts[d] = b.counts[d]

\* C25: for every set of records stored under a scope, getDashboardFromDb
\* yields the same totals and, in every dimension both compute, the same
\* {key, count} list in the same order as buildDashboard applied to those
\* records, the "(unknown)" bucket included.
C25_SameAsBuildDashboard ==
  [][(dbDash.st = "run" /\ dbDash'.st = "done") =>
       SameDashboard(dbDash'.out,
                     buildDashboard(RecordsUnder(table, Val(dbDash.scopePrefix))))]_vars

-----------------------------------------------------------------------------
(* analyze.js: the probes of one analyzeFiles call *)

\* C27: within one analyzeFiles call at most one probe subprocess runs at
\* any time: one that runs is the probe of the file the loop is at, the
\* records of all files before it are pushed, and no further one is spawned
\* before it has closed or errored; the records the call returns are in the
\* order of the input paths, one per input path.
C27_OneProbeAtATime ==
  analyzeCall.st # "idle" =>
    /\ Cardinality(analyzeCall.probes) <= 1
    /\ \A proc \in analyzeCall.probes :
         /\ analyzeCall.st = "run"
         /\ proc.file = analyzeCall.i
         /\ Len(analyzeCall.results) = proc.file - 1
    /\ analyzeCall.st = "done" =>
         /\ Len(analyzeCall.results) = Len(analyzeCall.relPaths)
         /\ \A i \in 1..Len(analyzeCall.relPaths) :
              analyzeCall.results[i].path = Str(normalizeRel(Str(analyzeCall.relPaths[i])))

\* A call for two different files has returned after a probe of each.
C27_Witness ==
  /\ analyzeCall.st = "done"
  /\ Len(analyzeCall.relPaths) = 2
  /\ analyzeCall.relPaths[1] # analyzeCall.relPaths[2]
  /\ Len(analyzeCall.probed) = 2
  /\ analyzeCall.probes = {}

-----------------------------------------------------------------------------
(* server.js: POST /api/analyze-all *)

\* process.env.ANALYZE_ALL_BATCH_SIZE, here 2.
ANALYZE_ALL_BATCH_SIZE == 2

\* Number(process.env.ANALYZE_ALL_BATCH_SIZE ?? 25) when finite and positive,
\* else 25.
batchSize == IF ANALYZE_ALL_BATCH_SIZE > 0 THEN ANALYZE_ALL_BATCH_SIZE ELSE 25

\* The whole list as one chunk.
chunkWhole(items, size) == <<items>>

RECURSIVE chunkArray(_, _)
\* for (i = 0; i < items.length; i += size) out.push(items.slice(i, i + size))
chunkArray(items, size) ==
  IF Len(items) = 0 THEN <<>>
  ELSE <<Slice(items, 0, size)>> \o chunkArray(SubSeq(items, Min(size, Len(items)) + 1, Len(items)), size)

\* POST /api/analyze-all up to its first call of analyzeFiles: the files of
\* the tree are listed; none gives the answer {analyzed: 0, errors: 0}, else
\* the list is cut into chunks and the first one is analysed.
AnalyzeAllRequest ==
  /\ allReq.st = "idle"
  /\ \E allFiles \in Listings(tree) :
       IF Len(allFiles) = 0
       THEN /\ allReq' = [st |-> "done", status |-> 200, allFiles |-> allFiles,
                          batches |-> <<>>, k |-> 1, probed |-> <<>>,
                          analyzed |-> 0, errors |-> 0, stored |-> 0]
            /\ UNCHANGED analyzeCall
       ELSE LET batches == chunkArray(allFiles, batchSize)
            IN /\ allReq' = [st |-> "run", allFiles |-> allFiles, batches |-> batches,
                             k |-> 1, probed |-> <<>>,
                             analyzed |-> 0, errors |-> 0, stored |-> 0]
               /\ analyzeCall' = AnalyzeFilesCall(batches[1])
  /\ upserts' = [upserts EXCEPT !["analyzeAll"] = Idle]
  /\ UNCHANGED <<thumbCall,
               boot,
               matches, disk, pending, timers, lastSignatureByRelPath, runs,
                 watchLog, pathReq, thumbCache, thumbCacheOrder, analyzeReq,
                 tree, searchReq, cmpInput, comparison, pool, dbUp, table,
                 lastWrite, errOverOk, getCall, search, options, dbDash,
                 dashInput, dashboard>>

\* The end of a turn of the loop over the chunks: upsertAnalyses has
\* returned, its count and those of the records are added up, and either
\* the next chunk is analysed or the totals are answered.
AnalyzeAllTurn ==
  /\ allReq.st = "run"
  /\ analyzeCall.st = "done"
  /\ upserts["analyzeAll"].st = "done"
  /\ LET results == analyzeCall.results
         err == Len(SelectSeq(results, LAMBDA r : Truthy(r.error)))
         after == [allReq EXCEPT !.k = @ + 1,
                                 !.probed = @ \o analyzeCall.probed,
                                 !.stored = @ + upserts["analyzeAll"].stored,
                                 !.errors = @ + err,
                                 !.analyzed = @ + (Len(results) - err)]
     IN IF allReq.k < Len(allReq.batches)
        THEN /\ allReq' = after
             /\ analyzeCall' = AnalyzeFilesCall(allReq.batches[allReq.k + 1])
             /\ upserts' = [upserts EXCEPT !["analyzeAll"] = Idle]
        ELSE /\ allReq' = [after EXCEPT !.st = "done"] @@ [status |-> 200]
             /\ UNCHANGED <<analyzeCall, upserts>>
  /\ UNCHANGED <<thumbCall,
               boot,
               matches, disk, pending, timers, lastSignatureByRelPath, runs,
                 watchLog, pathReq, thumbCache, thumbCacheOrder, analyzeReq,
                 tree, searchReq, cmpInput, comparison, pool, dbUp, table,
                 lastWrite, errOverOk, getCall, search, options, dbDash,
                 dashInput, dashboard>>

\* The catch of the route: analyzeFiles or upsertAnalyses rejected, the
\* answer is 500 with the message and the loop is left.
AnalyzeAllAbort ==
  /\ allReq.st = "run"
  /\ analyzeCall.st = "rejected" \/ upserts["analyzeAll"].st = "rejected"
  /\ allReq' = [allReq EXCEPT !.st = "done", !.probed = @ \o analyzeCall.probed]
                 @@ [status |-> 500]
  /\ UNCHANGED <<thumbCall,
               boot,
               matches, disk, pending, timers, lastSignatureByRelPath, runs,
                 watchLog, pathReq, thumbCache, thumbCacheOrder, analyzeReq,
                 analyzeCall, tree, searchReq, cmpInput, comparison, pool, dbUp,
                 table, upserts, lastWrite, errOverOk, getCall, search, options,
                 dbDash, dashInput, dashboard>>

\* One request to /api/analyze-all on the library of three files, from the
\* empty store.
NextAll ==
  \/ AnalyzeAllRequest
  \/ allReq.st = "run" /\ AnalyzeStat
  \/ allReq.st = "run" /\ AnalyzeProbe
  \/ /\ allReq.st = "run"
     /\ analyzeCall.st = "done"
     /\ upserts["analyzeAll"].st = "idle"
     /\ UpsertStart("analyzeAll", analyzeCall.results)
  \/ allReq.st = "run" /\ UpsertStep("analyzeAll")
  \/ AnalyzeAllTurn
  \/ AnalyzeAllAbort

SpecAll == Init /\ [][NextAll]_vars

\* A record is stored under path p.
Stored(p) == \E r \in DOMAIN table : r.path = Str(p)

RECURSIVE Flatten(_)
\* The chunks put one after another.
Flatten(chunks) == IF Len(chunks) = 0 THEN <<>> ELSE Head(chunks) \o Flatten(Tail(chunks))

\* The chunk that holds path p.
ChunkOf(chunks, p) ==
  CHOOSE j \in 1..Len(chunks) : \E i \in 1..Len(chunks[j]) : chunks[j][i] = p

\* C21: /api/analyze-all cuts the file list into chunks of
\* ANALYZE_ALL_BATCH_SIZE (the last one may be shorter) and works them off
\* one after another; whenever a file of a chunk has been probed, the
\* records of all chunks before it are in the store, and so are the records
\* of chunks 1..k when the run has got to chunk k+1, aborted there or not.
C21_ChunksStoredInTurn ==
  allReq.st # "idle" =>
    LET b == allReq.batches
        probed == allReq.probed \o (IF allReq.st = "run" THEN analyzeCall.probed ELSE <<>>)
    IN /\ Flatten(b) = allReq.allFiles
       /\ \A j \in 1..Len(b) :
            /\ Len(b[j]) >= 1
            /\ Len(b[j]) <= ANALYZE_ALL_BATCH_SIZE
            /\ j < Len(b) => Len(b[j]) = ANALYZE_ALL_BATCH_SIZE
       /\ \A j \in 1..Len(b) :
            j < allReq.k => \A i \in 1..Len(b[j]) : Stored(b[j][i])
       /\ \A n \in 1..Len(probed) :
            \A j \in 1..(ChunkOf(b, probed[n]) - 1) :
              \A i \in 1..Len(b[j]) : Stored(b[j][i])

\* The run was aborted in its second chunk, after a probe there; the two
\* files of the first chunk are stored, the file of the second is not.
C21_Witness ==
  /\ allReq.st = "done"
  /\ allReq.status = 500
  /\ allReq.k = 2
  /\ Len(allReq.batches) = 2
  /\ Len(allReq.batches[1]) = 2
  /\ \A i \in 1..2 : Stored(allReq.batches[1][i])
  /\ ~Stored(allReq.batches[2][1])

-----------------------------------------------------------------------------
(* server.js: /api/analyze-all beside the change watcher *)

InitRace ==
  /\ pool = "pool"
  /\ dbUp = TRUE
  /\ table = EmptyBag
  /\ upserts = [c \in CallSites |-> Idle]
  /\ lastWrite = [p \in Paths |-> NoRecord]
  /\ errOverOk = FALSE
  /\ getCall = Idle
  /\ search = Idle
  /\ options = Idle
  /\ dbDash = Idle
  /\ dashInput = <<>>
  /\ dashboard = Idle
  /\ cmpInput = <<>>
  /\ comparison = Idle
  /\ tree = {PathAV}
  /\ searchReq = Idle
  /\ analyzeReq = Idle
  /\ analyzeCall = Idle
  /\ pathReq = Idle
  /\ thumbCache = {}
  /\ thumbCacheOrder = <<>>
  /\ disk = [p \in Paths |-> IF p = PathAV THEN StatFile(1, 1) ELSE StatGone]
  /\ pending = [p \in Paths |-> 0]
  /\ timers = {}
  /\ lastSignatureByRelPath = [p \in Paths |-> <<>>]
  /\ runs = {}
  /\ watchLog = [events |-> 0, since |-> [p \in Paths |-> 0], latest |-> [p \in Paths |-> 0], bursts |-> [p \in Paths |-> <<>>], fired |-> [ev |-> 0], compared |-> [ev |-> 0], lastGood |-> [p \in Paths |-> <<>>], unseen |-> {}]
  /\ matches = Idle
  /\ allReq = Idle
  /\ boot = Idle
  /\ thumbCall = Idle

\* A library with the one file a/v.ts: the watcher gets add and change
\* events for it, and a request to /api/analyze-all is served.
NextRace ==
  \/ NextAll
  \/ Tick
  \/ schedule(PathAV)
  \/ TimerFire
  \/ WatchStat
  \/ WatchAnalyzeStat
  \/ WatchProbe
  \/ WatchUpsert

SpecRace == InitRace /\ [][NextRace]_vars

\* /api/analyze-all has a reanalysis of path p in progress: its probe runs
\* or the statement for its record is the next of upsertAnalyses.
AllAt(p) ==
  /\ allReq.st = "run"
  /\ \/ /\ analyzeCall.st = "run"
        /\ analyzeCall.probes # {}
        /\ analyzeCall.relPaths[analyzeCall.i] = p
     \/ /\ upserts["analyzeAll"].st = "run"
        /\ Head(upserts["analyzeAll"].rows).path = Str(p)

\* The watcher has a reanalysis of path p in progress: probe or upsert.
WatcherAt(p) == \E r \in runs : r.path = p /\ r.at \in {"probe", "upsert"}

\* C22: nothing keeps /api/analyze-all and the watcher from reanalysing the
\* same path at the same time: the request takes every file of the tree
\* whatever the watcher is at, and the watcher's callback decides by the
\* file and the signature of its map alone, so that it reanalyses a changed
\* file also while the request is at work.
C22_NoInFlightGuard ==
  /\ allReq.st # "idle" => \A p \in tree : \E i \in 1..Len(allReq.allFiles) : allReq.allFiles[i] = p
  /\ watchLog.compared.ev # 0 =>
       LET c == watchLog.compared
           isFile == c.found # StatGone /\ c.found.isFile
       IN c.called <=> (isFile /\ (c.known = <<>> \/ c.known # <<c.found.mtime, c.found.size>>))

\* The probe of a/v.ts for /api/analyze-all and the probe of a/v.ts for the
\* watcher run at the same time.
C22_Witness ==
  /\ AllAt(PathAV)
  /\ analyzeCall.probes # {}
  /\ \E r \in runs : r.path = PathAV /\ r.at = "probe"

-----------------------------------------------------------------------------
(* server.js: what the watcher leaves in the store *)

\* Nothing is under way for path p in the watcher: no timer is set for it
\* and no callback of a timer of it has still to stat, probe or upsert.
WatcherIdleFor(p) ==
  /\ \A t \in timers : t.path # p
  /\ \A r \in runs : r.path # p

\* The store holds a record of path p with the size and the modification
\* time the file has now.
StoredCurrent(p) ==
  \E r \in DOMAIN table :
    /\ r.path = Str(p)
    /\ r.data.sizeBytes = Num(disk[p].size)
    /\ r.data.modifiedAt = ToISOString(disk[p].mtime)

\* C23: once the events for a path have stopped (the file has not changed
\* since the last one) and every timer, probe and upsert for the path has
\* finished, the record stored for the path has the sizeBytes and modifiedAt
\* of the file as it is, in every interleaving.
C23_StoreCurrent ==
  \A p \in EventPaths :
    (/\ watchLog.latest[p] # 0
     /\ p \notin watchLog.unseen
     /\ WatcherIdleFor(p)
     /\ disk[p] # StatGone
     /\ disk[p].isFile) => StoredCurrent(p)

-----------------------------------------------------------------------------
(* server.js: start() *)

\* Largest value configured for DB_INIT_MAX_ATTEMPTS.
MaxInit == 3

\* Number(process.env.DB_INIT_MAX_ATTEMPTS ?? 30): the values from 1 to
\* MaxInit in steps of a half, as fractions num/den.
InitAttempts == {[num |-> n, den |-> 2] : n \in 2..(2 * MaxInit)}

\* attempt <= maxAttempts and attempt === maxAttempts for an integer attempt.
AtMost(attempt, max) == attempt * max.den <= max.num
Equals(attempt, max) == attempt * max.den = max.num

\* The queries of ensureSchema: the table and its four indexes.
SchemaQueries == 5

\* start() at the head of a turn of its retry loop with counter attempt:
\* ensureSchema is called when attempt <= maxAttempts, else the loop is over
\* and app.listen is called.
LoopHead(b, attempt) ==
  IF AtMost(attempt, b.max)
  THEN [b EXCEPT !.st = "schema", !.attempt = attempt, !.q = 1, !.calls = @ + 1]
  ELSE [b EXCEPT !.st = "binding", !.attempt = attempt]

\* start() is called: without a pool app.listen is called at once, else the
\* retry loop is entered.
Start ==
  /\ boot.st = "init"
  /\ boot' = IF pool = "null" THEN [boot EXCEPT !.st = "binding"]
             ELSE LoopHead(boot, 1)
  /\ UNCHANGED <<thumbCall,
               allReq, matches, disk, pending, timers, lastSignatureByRelPath,
                 runs, watchLog, pathReq, thumbCache, thumbCacheOrder, analyzeReq,
                 analyzeCall, tree, searchReq, cmpInput, comparison, pool, dbUp,
                 table, upserts, lastWrite, errOverOk, getCall, search, options,
                 dbDash, dashInput, dashboard>>

\* The next query of ensureSchema is answered.  After the last one the loop
\* is left (break) and app.listen is called.  A failing query rejects
\* ensureSchema: on the last attempt the process exits, else the delay is
\* awaited.
SchemaQuery ==
  /\ boot.st = "schema"
  /\ \E ok \in BOOLEAN :
       boot' = IF ok
               THEN (IF boot.q < SchemaQueries THEN [boot EXCEPT !.q = @ + 1]
                     ELSE [boot EXCEPT !.st = "binding", !.ready = boot.calls])
               ELSE (IF Equals(boot.attempt, boot.max)
                     THEN [boot EXCEPT !.st = "exited", !.failed = @ + 1]
                     ELSE [boot EXCEPT !.st = "delay", !.failed = @ + 1])
  /\ UNCHANGED <<thumbCall,
               allReq, matches, disk, pending, timers, lastSignatureByRelPath,
                 runs, watchLog, pathReq, thumbCache, thumbCacheOrder, analyzeReq,
                 analyzeCall, tree, searchReq, cmpInput, comparison, pool, dbUp,
                 table, upserts, lastWrite, errOverOk, getCall, search, options,
                 dbDash, dashInput, dashboard>>

\* The delay between two attempts is over: attempt++ and the next turn.
DelayOver ==
  /\ boot.st = "delay"
  /\ boot' = LoopHead(boot, boot.attempt + 1)
  /\ UNCHANGED <<thumbCall,
               allReq, matches, disk, pending, timers, lastSignatureByRelPath,
                 runs, watchLog, pathReq, thumbCache, thumbCacheOrder, analyzeReq,
                 analyzeCall, tree, searchReq, cmpInput, comparison, pool, dbUp,
                 table, upserts, lastWrite, errOverOk, getCall, search, options,
                 dbDash, dashInput, dashboard>>

\* The server that app.listen created is bound and listens.
Listening ==
  /\ boot.st = "binding"
  /\ boot' = [boot EXCEPT !.st = "listening", !.order = Append(@, "listen")]
  /\ UNCHANGED <<thumbCall,
               allReq, matches, disk, pending, timers, lastSignatureByRelPath,
                 runs, watchLog, pathReq, thumbCache, thumbCacheOrder, analyzeReq,
                 analyzeCall, tree, searchReq, cmpInput, comparison, pool, dbUp,
                 table, upserts, lastWrite, errOverOk, getCall, search, options,
                 dbDash, dashInput, dashboard>>

\* The callback given to app.listen: it logs and calls startMediaWatcher().
ListenCallback ==
  /\ boot.st = "listening"
  /\ boot' = [boot EXCEPT !.st = "watching", !.order = Append(@, "watch")]
  /\ UNCHANGED <<thumbCall,
               allReq, matches, disk, pending, timers, lastSignatureByRelPath,
                 runs, watchLog, pathReq, thumbCache, thumbCacheOrder, analyzeReq,
                 analyzeCall, tree, searchReq, cmpInput, comparison, pool, dbUp,
                 table, upserts, lastWrite, errOverOk, getCall, search, options,
                 dbDash, dashInput, dashboard>>

InitStart ==
  /\ pool \in {"pool", "null"}
  /\ dbUp = TRUE
  /\ table = EmptyBag
  /\ upserts = [c \in CallSites |-> Idle]
  /\ lastWrite = [p \in Paths |-> NoRecord]
  /\ errOverOk = FALSE
  /\ getCall = Idle
  /\ search = Idle
  /\ options = Idle
  /\ dbDash = Idle
  /\ dashInput = <<>>
  /\ dashboard = Idle
  /\ cmpInput = <<>>
  /\ comparison = Idle
  /\ tree = Paths
  /\ searchReq = Idle
  /\ analyzeReq = Idle
  /\ analyzeCall = Idle
  /\ pathReq = Idle
  /\ thumbCache = {}
  /\ thumbCacheOrder = <<>>
  /\ disk = [p \in Paths |-> StatFile(1, 1)]
  /\ pending = [p \in Paths |-> 0]
  /\ timers = {}
  /\ lastSignatureByRelPath = [p \in Paths |-> <<>>]
  /\ runs = {}
  /\ watchLog = [events |-> 0, since |-> [p \in Paths |-> 0], latest |-> [p \in Paths |-> 0], bursts |-> [p \in Paths |-> <<>>], fired |-> [ev |-> 0], compared |-> [ev |-> 0], lastGood |-> [p \in Paths |-> <<>>], unseen |-> {}]
  /\ matches = Idle
  /\ allReq = Idle
  /\ boot \in {[st |-> "init", max |-> m, attempt |-> 0, q |-> 0, calls |-> 0, failed |-> 0, ready |-> 0, order |-> <<>>] : m \in InitAttempts}
  /\ thumbCall = Idle

NextStart ==
  \/ Start
  \/ SchemaQuery
  \/ DelayOver
  \/ Listening
  \/ ListenCallback

SpecStart == InitStart /\ [][NextStart]_vars

\* C29: with the store enabled and DB_INIT_MAX_ATTEMPTS at least 1, start()
\* calls ensureSchema at most DB_INIT_MAX_ATTEMPTS times and not again after
\* a call has succeeded, and the process exits when the last attempt fails;
\* the server listens and the watcher is started only after a call of
\* ensureSchema has succeeded (or at once without a store), and the watcher
\* is not started before the server listens.
C29_ListenAfterSchema ==
  /\ pool = "null" => boot.calls = 0 /\ boot.st # "exited"
  /\ pool # "null" =>
       /\ AtMost(boot.calls, boot.max)
       /\ boot.ready # 0 => boot.calls = boot.ready
       /\ (boot.ready = 0 /\ ~AtMost(boot.failed + 1, boot.max)) => boot.st = "exited"
       /\ boot.st \in {"binding", "listening", "watching"} => boot.ready # 0
  /\ boot.order \in {<<>>, <<"listen">>, <<"listen", "watch">>}

-----------------------------------------------------------------------------
(* server.js: the thumbnail cache under a sequence of setThumbCache calls *)

\* Cache keys as /api/thumbnail builds them, relative|width|mtimeMs|size:
\* two files, two widths, and a/v.ts once more after a write.
ThumbKeys ==
  {<<p, w, 1, 1>> : p \in {PathAV, PathAW}, w \in {48, 160}} \cup {<<PathAV, 160, 2, 1>>}

\* The values setThumbCache is called with: a picture, an empty buffer, and
\* a value that is no buffer.
ThumbValues ==
  {[isBuffer |-> TRUE, len |-> 1], [isBuffer |-> TRUE, len |-> 0],
   [isBuffer |-> FALSE, len |-> 0]}

\* A call setThumbCache(key, buf); the call and the cache it found are kept
\* as the latest.
SetThumbCacheCall(key, buf) ==
  /\ LET set == setThumbCache(thumbCache, thumbCacheOrder, key, buf.isBuffer, buf.len)
     IN /\ thumbCache' = set.cache
        /\ thumbCacheOrder' = set.order
  /\ thumbCall' = [st |-> "done", key |-> key, buf |-> buf,
                   cache |-> thumbCache, order |-> thumbCacheOrder]
  /\ UNCHANGED <<boot, allReq, matches, disk, pending, timers,
                 lastSignatureByRelPath, runs, watchLog, pathReq, analyzeReq,
                 analyzeCall, tree, searchReq, cmpInput, comparison, pool, dbUp,
                 table, upserts, lastWrite, errOverOk, getCall, search, options,
                 dbDash, dashInput, dashboard>>

NextThumb == \E key \in ThumbKeys, buf \in ThumbValues : SetThumbCacheCall(key, buf)

SpecThumb == Init /\ [][NextThumb]_vars

\* The keys of a list.
KeysIn(order) == {order[i] : i \in 1..Len(order)}

\* C30: after any sequence of setThumbCache calls the cache holds at most
\* THUMB_CACHE_MAX entries and its keys are those of the order list, each
\* once; a call with a cached key, an empty buffer or a value that is no
\* buffer changes nothing; any other call appends its key and, when the list
\* is longer than THUMB_CACHE_MAX then, drops keys from the front, the
\* oldest first.
C30_BoundedFifo ==
  /\ Cardinality(thumbCache) <= THUMB_CACHE_MAX
  /\ KeysIn(thumbCacheOrder) = thumbCache
  /\ Len(thumbCacheOrder) = Cardinality(thumbCache)
  /\ thumbCall.st = "done" =>
       LET c == thumbCall
           pushed == Append(c.order, c.key)
           over == IF Len(pushed) > THUMB_CACHE_MAX THEN Len(pushed) - THUMB_CACHE_MAX ELSE 0
       IN IF ~c.buf.isBuffer \/ c.buf.len = 0 \/ c.key \in c.cache
          THEN thumbCache = c.cache /\ thumbCacheOrder = c.order
          ELSE /\ thumbCacheOrder = SubSeq(pushed, over + 1, Len(pushed))
               /\ thumbCache = KeysIn(thumbCacheOrder)

\* A picture was stored under a new key in the full cache: the oldest key
\* is gone, the others have moved up.
C30_Witness ==
  /\ thumbCall.st = "done"
  /\ Len(thumbCall.order) = THUMB_CACHE_MAX
  /\ thumbCall.key \notin thumbCall.cache
  /\ thumbCall.buf.isBuffer /\ thumbCall.buf.len > 0
  /\ thumbCall.order[1] \notin thumbCache
  /\ thumbCacheOrder = Tail(thumbCall.order) \o <<thumbCall.key>>

====
